---- MODULE Spec2Model ----
(***************************************************************************)
(* LLM invocation layer of report_ai: model selection, bounded invocation, *)
(* response normalisation, fallback orchestration (src/src/ai_analysis.py) *)
(* and the process-wide call tracker (src/src/model_tracker.py).           *)
(*                                                                         *)
(* Response texts are sequences of one-character strings, credentials      *)
(* sequences of code points.  Exceptions are named by the Python class the *)
(* handlers discriminate on:                                               *)
(*   "RateLimitError"       openai.RateLimitError                          *)
(*   "FuturesTimeoutError"  concurrent.futures.TimeoutError                *)
(*   "Exception"            any other subclass of Exception                *)
(* The sampling temperature and the prompt never influence control flow    *)
(* and are left out of the state.                                          *)
(***************************************************************************)
EXTENDS Integers, Sequences, FiniteSets, Bags, TLC

VARIABLES
    OPENAI_API_KEY,        \* environment variable OPENAI_API_KEY
    GOOGLE_API_KEY,        \* environment variable GOOGLE_API_KEY
    GEMINI_AVAILABLE,      \* langchain_google_genai importable
    _calls,                \* ModelTracker._calls
    primary_model,         \* argument of the last get_llm_with_fallback that returned
    llm_config,            \* value returned by the last get_llm_with_fallback
    pc,                    \* position of the caller inside invoke_llm_with_fallback
    phase,                 \* "first" attempt or "fallback" scan
    fallback_models,       \* local list of invoke_llm_with_fallback
    current_model_index,   \* local index of the resolved model
    scan,                  \* 1-based position of the loop of _try_fallback_models
    worker,                \* the one-shot executor thread: idle / running / finished
    worker_result,         \* what llm.invoke produced on the worker
    attempt_outcome,       \* what _invoke_with_timeout delivered to its caller
    log,                   \* attempts of the current call, in order
    result,                \* return value of the current call
    raised,                \* an exception escaped invoke_llm_with_fallback
    calls_before,          \* _calls when the current call was entered
    requests,              \* number of invoke_llm_with_fallback calls so far
    _instance,             \* ModelTracker._instance: 0 for None, else the object
    objects,               \* number of ModelTracker objects allocated so far
    handles,               \* the objects returned by the ModelTracker() calls so far
    last_op,               \* the tracker operation of the last step, "none" if none
    returned_texts,        \* calls since the last reset that returned a text
    threads,               \* the track_call calls in progress, one per thread: a bag
    thread_calls,          \* track_call calls that read self._calls since the last reset
    reader,                \* the thread inside a query method of the tracker
    replaced               \* lists reset() unbound from self._calls that a thread holds

vars == <<OPENAI_API_KEY, GOOGLE_API_KEY, GEMINI_AVAILABLE, _calls, primary_model,
          llm_config, pc, phase, fallback_models, current_model_index, scan,
          worker, worker_result, attempt_outcome, log, result, raised,
          calls_before, requests, _instance, objects, handles, last_op,
          returned_texts, threads, thread_calls, reader, replaced>>

singletonVars == <<_instance, objects, handles>>
threadVars == <<threads, thread_calls, reader, replaced>>
envVars == <<OPENAI_API_KEY, GOOGLE_API_KEY, GEMINI_AVAILABLE>>
callVars == <<pc, phase, fallback_models, current_model_index, scan, worker,
              worker_result, attempt_outcome, log, result, raised, calls_before,
              requests>>

(***************************************************************************)
(* Bounds                                                                  *)
(***************************************************************************)
MaxRequests == 2
MaxCalls == 4
MaxHandles == 3
MaxFragments == 2
MaxThreads == 2
MaxRecords == 2

(***************************************************************************)
(* Constants of the program                                                *)
(***************************************************************************)
GEMINI_MODEL == "gemini-3-pro-preview"
GEMINI_FLASH_MODEL == "gemini-2.5-flash"
DEFAULT_MODEL == "gpt-5.2"
GPT_4O == "gpt-4o"

\* Models a caller may request as primary: the defaults and one outside them.
PrimaryModels == {DEFAULT_MODEL, GEMINI_MODEL, GEMINI_FLASH_MODEL, GPT_4O, "gpt-4-turbo"}

(***************************************************************************)
(* Credentials: os.getenv gives None or a string.  A string is the         *)
(* sequence of the code points of its characters: 32 is the space, 13 the  *)
(* carriage return, 107 the letter k, 8195 the em space U+2003.            *)
(***************************************************************************)
NoneStr == [set |-> FALSE, val |-> <<>>]
Str(chars) == [set |-> TRUE, val |-> chars]
\* unset, empty, blank (space, carriage return, em space) and present ("k ")
CredentialValues == {NoneStr, Str(<<>>), Str(<<32, 13, 8195>>), Str(<<107, 32>>)}

\* the characters str.strip() removes, those for which str.isspace() is true:
\* U+0009 to U+000D, U+001C to U+0020, U+0085, U+00A0, U+1680, U+2000 to
\* U+200A, U+2028, U+2029, U+202F, U+205F and U+3000
Whitespace ==
    (9..13) \cup (28..32) \cup {133, 160, 5760} \cup (8192..8202)
    \cup {8232, 8233, 8239, 8287, 12288}

RECURSIVE lstrip(_)
lstrip(s) == IF s # <<>> /\ Head(s) \in Whitespace THEN lstrip(Tail(s)) ELSE s

RECURSIVE rstrip(_)
rstrip(s) ==
    IF s # <<>> /\ s[Len(s)] \in Whitespace THEN rstrip(SubSeq(s, 1, Len(s) - 1)) ELSE s

\* str.strip()
strip(s) == rstrip(lstrip(s))

\* `not key or key.strip() == ""`
KeyMissing(key) == (~key.set \/ key.val = <<>>) \/ strip(key.val) = <<>>

\* `key and key.strip() != ""`
KeyPresent(key) == (key.set /\ key.val # <<>>) /\ strip(key.val) # <<>>

(***************************************************************************)
(* Exception handling.  A try statement is its list of except clauses in   *)
(* source order; the first clause whose class the exception is an instance *)
(* of decides, and an exception no clause matches propagates.              *)
(***************************************************************************)
\* classes derived from BaseException and not from Exception
\* (CancelledError is asyncio's; the one of concurrent.futures is an Exception)
BaseExceptionOnly ==
    {"BaseException", "SystemExit", "KeyboardInterrupt", "GeneratorExit",
     "CancelledError", "BaseExceptionGroup"}

\* isinstance(exc, cls), the test an except clause makes
IsInstance(exc, cls) ==
    exc = cls \/ (cls = "Exception" /\ exc \notin BaseExceptionOnly)

RECURSIVE Dispatch(_, _)
Dispatch(clauses, exc) ==
    IF clauses = <<>> THEN "propagate"
    ELSE IF \E cls \in Head(clauses).classes : IsInstance(exc, cls)
         THEN Head(clauses).action
         ELSE Dispatch(Tail(clauses), exc)

(***************************************************************************)
(* Model Selector: get_llm_with_fallback                                   *)
(***************************************************************************)
is_gemini(model) == model = GEMINI_MODEL \/ model = GEMINI_FLASH_MODEL

RECURSIVE IndexOf(_, _, _)
IndexOf(list, x, i) ==
    IF i > Len(list) THEN 0
    ELSE IF list[i] = x THEN i ELSE IndexOf(list, x, i + 1)

\* x in list
Contains(list, x) == IndexOf(list, x, 1) # 0

\* list.remove(x): drops the first occurrence
Remove(list, x) ==
    LET i == IndexOf(list, x, 1)
    IN IF i = 0 THEN list ELSE SubSeq(list, 1, i - 1) \o SubSeq(list, i + 1, Len(list))

\* list.insert(0, x)
InsertFront(list, x) == <<x>> \o list

\* variant: the Gemini models are added whatever the credential and the library
BaseModelsUngated(google_key, gemini_available) ==
    <<DEFAULT_MODEL, GEMINI_MODEL, GEMINI_FLASH_MODEL, GPT_4O>>

\* variant: gpt-4o is added before the Gemini models
BaseModelsReordered(google_key, gemini_available) ==
    <<DEFAULT_MODEL, GPT_4O>>
    \o (IF gemini_available /\ KeyPresent(google_key)
        THEN <<GEMINI_MODEL, GEMINI_FLASH_MODEL>> ELSE <<>>)

\* the default ordered set, before the primary model is placed
BaseModels(google_key, gemini_available) ==
    <<DEFAULT_MODEL>>
    \o (IF gemini_available /\ KeyPresent(google_key)
        THEN <<GEMINI_MODEL, GEMINI_FLASH_MODEL>> ELSE <<>>)
    \o <<GPT_4O>>

\* variant: the primary model is inserted without removing it from the base set
BuildFallbackModelsNoRemove(primary, google_key, gemini_available) ==
    InsertFront(BaseModels(google_key, gemini_available), primary)

\* the candidate list with the primary model first
BuildFallbackModels(primary, google_key, gemini_available) ==
    LET base == BaseModels(google_key, gemini_available)
    IN IF ~Contains(base, primary)
       THEN InsertFront(base, primary)
       ELSE InsertFront(Remove(base, primary), primary)

\* which branch of the per-candidate if/elif a model takes
Branch(model, openai_key, google_key, gemini_available) ==
    IF ~is_gemini(model) /\ KeyPresent(openai_key) THEN "openai"
    ELSE IF is_gemini(model) /\ gemini_available /\ KeyPresent(google_key) THEN "google"
    ELSE "skip"

\* value of primary_model before get_llm_with_fallback was ever called
NotRequested == ""

NoneConfig ==
    [present |-> FALSE, model_name |-> "", provider |-> "", llm |-> "",
     fallback_models |-> <<>>]

\* what get_llm_with_fallback does: it returns a value or an exception leaves it
SelectorReturns(config) == [raised |-> "", value |-> config]
SelectorRaises(exc) == [raised |-> exc, value |-> NoneConfig]

\* what the client constructor of a model does: ctor_fails are the models whose
\* constructor raises an exception derived from Exception during this call,
\* ctor_exits those whose constructor raises SystemExit
Construct(model, ctor_fails, ctor_exits) ==
    IF model \in ctor_exits THEN "SystemExit"
    ELSE IF model \in ctor_fails THEN "Exception"
    ELSE "ok"

\* the except clauses of get_llm_with_fallback: lines 207-212 for an OpenAI
\* model, lines 229-231 for a Gemini one
SelectorHandler(branch, exc) ==
    IF branch = "openai"
    THEN Dispatch(<<[classes |-> {"RateLimitError"}, action |-> "continue"],
                    [classes |-> {"Exception"}, action |-> "continue"]>>, exc)
    ELSE Dispatch(<<[classes |-> {"Exception"}, action |-> "continue"]>>, exc)

\* variant: the config names the primary model whatever candidate was constructed
RECURSIVE SelectFromNamesPrimary(_, _, _, _, _, _, _)
SelectFromNamesPrimary(list, i, ctor_fails, ctor_exits, openai_key, google_key, gemini_available) ==
    IF i > Len(list) THEN SelectorReturns(NoneConfig)
    ELSE LET model == list[i]
             br == Branch(model, openai_key, google_key, gemini_available)
             ctor == Construct(model, ctor_fails, ctor_exits)
         IN IF br # "skip" /\ ctor = "ok"
            THEN SelectorReturns([present |-> TRUE, model_name |-> list[1],
                                  provider |-> br, llm |-> model,
                                  fallback_models |-> list])
            ELSE IF br # "skip" /\ SelectorHandler(br, ctor) = "propagate"
            THEN SelectorRaises(ctor)
            ELSE SelectFromNamesPrimary(list, i + 1, ctor_fails, ctor_exits, openai_key,
                                        google_key, gemini_available)

\* variant: a failing client construction ends the selection
RECURSIVE SelectFromStopsOnFailure(_, _, _, _, _, _, _)
SelectFromStopsOnFailure(list, i, ctor_fails, ctor_exits, openai_key, google_key, gemini_available) ==
    IF i > Len(list) THEN SelectorReturns(NoneConfig)
    ELSE LET model == list[i]
             br == Branch(model, openai_key, google_key, gemini_available)
             ctor == Construct(model, ctor_fails, ctor_exits)
         IN IF br = "skip"
            THEN SelectFromStopsOnFailure(list, i + 1, ctor_fails, ctor_exits,
                                          openai_key, google_key, gemini_available)
            ELSE IF ctor = "ok"
            THEN SelectorReturns([present |-> TRUE, model_name |-> model,
                                  provider |-> br, llm |-> model,
                                  fallback_models |-> list])
            ELSE IF SelectorHandler(br, ctor) = "propagate" THEN SelectorRaises(ctor)
            ELSE SelectorReturns(NoneConfig)

\* the selection loop from position i on, lines 185-231
RECURSIVE SelectFrom(_, _, _, _, _, _, _)
SelectFrom(list, i, ctor_fails, ctor_exits, openai_key, google_key, gemini_available) ==
    IF i > Len(list) THEN SelectorReturns(NoneConfig)
    ELSE LET model == list[i]
             br == Branch(model, openai_key, google_key, gemini_available)
             ctor == Construct(model, ctor_fails, ctor_exits)
         IN IF br # "skip" /\ ctor = "ok"
            THEN SelectorReturns([present |-> TRUE, model_name |-> model,
                                  provider |-> br, llm |-> model,
                                  fallback_models |-> list])
            ELSE IF br # "skip" /\ SelectorHandler(br, ctor) = "propagate"
            THEN SelectorRaises(ctor)
            ELSE SelectFrom(list, i + 1, ctor_fails, ctor_exits, openai_key, google_key,
                            gemini_available)

get_llm_with_fallback(primary, ctor_fails, ctor_exits, openai_key, google_key, gemini_available) ==
    IF KeyMissing(openai_key) /\ KeyMissing(google_key) THEN SelectorReturns(NoneConfig)
    ELSE SelectFrom(BuildFallbackModels(primary, google_key, gemini_available), 1,
                    ctor_fails, ctor_exits, openai_key, google_key, gemini_available)

(***************************************************************************)
(* Call Tracker: ModelTracker                                              *)
(***************************************************************************)
\* variant: the record is put at the front of the list
track_callPrepends(calls, model_name, success) ==
    <<[model |-> model_name, success |-> success]>> \o calls

\* self._calls.append({"model": model_name, "success": success})
track_call(calls, model_name, success) ==
    Append(calls, [model |-> model_name, success |-> success])

\* variant: failed calls are counted too
all_calls(calls) == [i \in 1..Len(calls) |-> calls[i].model]

\* [call["model"] for call in calls if call.get("success", True)]
RECURSIVE successful_calls(_)
successful_calls(calls) ==
    IF calls = <<>> THEN <<>>
    ELSE (IF Head(calls).success THEN <<Head(calls).model>> ELSE <<>>)
         \o successful_calls(Tail(calls))

\* Counter(names): pairs (key, count) in order of first occurrence
RECURSIVE Counter(_)
Counter(names) ==
    IF names = <<>> THEN <<>>
    ELSE LET rest == Counter(SubSeq(names, 1, Len(names) - 1))
             x == names[Len(names)]
             i == CHOOSE j \in 0..Len(rest) :
                      /\ (j # 0 => rest[j].key = x)
                      /\ (j = 0 => \A k \in 1..Len(rest) : rest[k].key # x)
         IN IF i = 0 THEN Append(rest, [key |-> x, count |-> 1])
            ELSE [rest EXCEPT ![i].count = @ + 1]

get_usage_stats(calls) ==
    IF calls = <<>> THEN <<>> ELSE Counter(successful_calls(calls))

\* variant: min instead of max
RECURSIVE MinItem(_, _, _)
MinItem(items, i, best) ==
    IF i > Len(items) THEN best
    ELSE MinItem(items, i + 1, IF items[i].count < items[best].count THEN i ELSE best)

\* variant: the last item with the greatest count
RECURSIVE MaxItemLast(_, _, _)
MaxItemLast(items, i, best) ==
    IF i > Len(items) THEN best
    ELSE MaxItemLast(items, i + 1,
                     IF items[i].count >= items[best].count THEN i ELSE best)

\* max(items, key=count): the first item with the greatest count
RECURSIVE MaxItem(_, _, _)
MaxItem(items, i, best) ==
    IF i > Len(items) THEN best
    ELSE MaxItem(items, i + 1, IF items[i].count > items[best].count THEN i ELSE best)

NoneModel == [present |-> FALSE, name |-> ""]

get_primary_model(calls) ==
    LET stats == get_usage_stats(calls)
    IN IF stats = <<>> THEN NoneModel
       ELSE [present |-> TRUE, name |-> stats[MaxItem(stats, 1, 1)].key]

\* self._calls.copy()
get_all_calls(calls) == [i \in 1..Len(calls) |-> calls[i]]

get_total_calls(calls) == Len(calls)

RECURSIVE get_successful_calls_count(_)
get_successful_calls_count(calls) ==
    IF calls = <<>> THEN 0
    ELSE (IF Head(calls).success THEN 1 ELSE 0) + get_successful_calls_count(Tail(calls))

(***************************************************************************)
(* Response Normalizer: _extract_text_from_response                        *)
(*                                                                         *)
(* A Python value is a record [t, s, items]: t = "str" with characters s,  *)
(* t = "list" with elements items, t = "none" for None, t = "other" for    *)
(* any other object, whose str() rendering is s.  A list element is a      *)
(* record [t, hasText, text, s]: t = "dict" (hasText: the key 'text' is    *)
(* present, text: its value), t = "str" (the string s) or t = "other"      *)
(* (str() rendering s).  For a dict, s is its str() rendering.             *)
(***************************************************************************)
PyStr(chars) == [t |-> "str", s |-> chars, items |-> <<>>]
PyNone == [t |-> "none", s |-> <<"N", "o", "n", "e">>, items |-> <<>>]
PyList(items) == [t |-> "list", s |-> <<>>, items |-> items]
PyOther(repr) == [t |-> "other", s |-> repr, items |-> <<>>]

TextStr(chars) == [isStr |-> TRUE, s |-> chars]
TextNone == [isStr |-> FALSE, s |-> <<>>]

DictText(text) == [t |-> "dict", hasText |-> TRUE, text |-> text, s |-> <<"{", "}">>]
DictNoText == [t |-> "dict", hasText |-> FALSE, text |-> TextNone, s |-> <<"{", "}">>]
StrItem(chars) == [t |-> "str", hasText |-> FALSE, text |-> TextNone, s |-> chars]
OtherItem(repr) == [t |-> "other", hasText |-> FALSE, text |-> TextNone, s |-> repr]

\* a response object: isList (the response itself is a list of items), else
\* the attributes text (hasText), content (getattr default None), parts (hasParts)
ListResponse(items) ==
    [isList |-> TRUE, items |-> items, hasText |-> FALSE, text |-> PyNone,
     content |-> PyNone, hasParts |-> FALSE, parts |-> PyNone]
ObjResponse(hasText, text, content, hasParts, parts) ==
    [isList |-> FALSE, items |-> <<>>, hasText |-> hasText, text |-> text,
     content |-> content, hasParts |-> hasParts, parts |-> parts]

\* lines 254-260: elements of a response that is itself a list
RECURSIVE ExtractedTop(_)
ExtractedTop(items) ==
    IF items = <<>> THEN <<>>
    ELSE LET item == Head(items)
         IN (IF item.t = "dict"
             THEN (IF item.hasText THEN <<item.text>> ELSE <<>>)
             ELSE <<TextStr(item.s)>>)
            \o ExtractedTop(Tail(items))

\* lines 272-276, 285-290, 304-308: elements of a list held by an accessor
RECURSIVE ExtractedAttr(_)
ExtractedAttr(items) ==
    IF items = <<>> THEN <<>>
    ELSE LET item == Head(items)
         IN (IF item.t = "dict" /\ item.hasText
             THEN <<item.text>>
             ELSE <<TextStr(item.s)>>)
            \o ExtractedAttr(Tail(items))

\* variant: the fragments are concatenated without a separator
RECURSIVE JoinCharsNoSeparator(_)
JoinCharsNoSeparator(parts) ==
    IF parts = <<>> THEN <<>>
    ELSE IF Len(parts) = 1 THEN parts[1].s
    ELSE parts[1].s \o JoinCharsNoSeparator(Tail(parts))

RECURSIVE JoinChars(_)
JoinChars(parts) ==
    IF parts = <<>> THEN <<>>
    ELSE IF Len(parts) = 1 THEN parts[1].s
    ELSE parts[1].s \o <<" ">> \o JoinChars(Tail(parts))

Returned(chars) == [ok |-> TRUE, text |-> chars]
RaisedTypeError == [ok |-> FALSE, text |-> <<>>]

\* ' '.join(extracted): TypeError when an element is not a str
Join(parts) ==
    IF \E i \in 1..Len(parts) : ~parts[i].isStr
    THEN RaisedTypeError
    ELSE Returned(JoinChars(parts))

\* lines 297-313, reached when content is neither a list nor a str
ExtractFromParts(response) ==
    IF response.content.t = "none"
    THEN IF response.hasParts
         THEN IF response.parts.t = "list" THEN Join(ExtractedAttr(response.parts.items))
              ELSE IF response.parts.t # "none" THEN Returned(response.parts.s)
              ELSE Returned(<<>>)
         ELSE Returned(<<>>)
    ELSE Returned(response.content.s)

\* lines 279-295
ExtractFromContent(response) ==
    IF response.content.t = "list" THEN Join(ExtractedAttr(response.content.items))
    ELSE IF response.content.t = "str" THEN Returned(response.content.s)
    ELSE ExtractFromParts(response)

_extract_text_from_response(response) ==
    IF response.isList THEN Join(ExtractedTop(response.items))
    ELSE IF response.hasText /\ response.text.t = "str" THEN Returned(response.text.s)
    ELSE IF response.hasText /\ response.text.t = "list"
         THEN Join(ExtractedAttr(response.text.items))
    ELSE ExtractFromContent(response)

\* response shapes the providers hand back to the orchestrator
OpenAIMessage == ObjResponse(FALSE, PyNone, PyStr(<<"h", "i">>), FALSE, PyNone)
GeminiMessage == ObjResponse(TRUE, PyStr(<<"o", "k">>), PyList(<<DictText(TextStr(<<"x">>))>>), FALSE, PyNone)
FragmentMessage ==
    ObjResponse(FALSE, PyNone,
                PyList(<<DictText(TextStr(<<"a">>)), DictText(TextStr(<<"b">>))>>),
                FALSE, PyNone)
NullFragmentMessage ==
    ObjResponse(FALSE, PyNone, PyList(<<DictText(TextStr(<<"a">>)), DictText(TextNone)>>),
                FALSE, PyNone)
Responses == {OpenAIMessage, FragmentMessage, NullFragmentMessage}
NoResponse == ObjResponse(FALSE, PyNone, PyNone, FALSE, PyNone)

(***************************************************************************)
(* The except clauses of the orchestrator                                  *)
(***************************************************************************)
\* variant: the first except clause names quota exhaustion only
FirstAttemptHandlerNoTimeout(exc, provider) ==
    Dispatch(<<[classes |-> {"RateLimitError"}, action |-> "fallback"],
               [classes |-> {"Exception"},
                action |-> IF provider = "openai" THEN "fallback" ELSE "return_none"]>>,
             exc)

\* variant: the first attempt falls back on any exception, whatever the provider
FirstAttemptHandlerAlwaysFallback(exc, provider) ==
    Dispatch(<<[classes |-> {"RateLimitError", "FuturesTimeoutError"}, action |-> "fallback"],
               [classes |-> {"Exception"}, action |-> "fallback"]>>,
             exc)

\* invoke_llm_with_fallback, lines 451-476
FirstAttemptHandler(exc, provider) ==
    Dispatch(<<[classes |-> {"RateLimitError", "FuturesTimeoutError"}, action |-> "fallback"],
               [classes |-> {"Exception"},
                action |-> IF provider = "openai" THEN "fallback" ELSE "return_none"]>>,
             exc)

\* variant: quota exhaustion of a fallback candidate ends the scan
OpenAIFallbackHandlerStops(exc) ==
    Dispatch(<<[classes |-> {"RateLimitError", "FuturesTimeoutError"}, action |-> "return_none"],
               [classes |-> {"Exception"}, action |-> "continue"]>>,
             exc)

\* _try_fallback_models, OpenAI branch, lines 384-389
OpenAIFallbackHandler(exc) ==
    Dispatch(<<[classes |-> {"RateLimitError", "FuturesTimeoutError"}, action |-> "continue"],
               [classes |-> {"Exception"}, action |-> "continue"]>>,
             exc)

\* variant: the Gemini branch catches only quota exhaustion and timeout
GeminiFallbackHandlerNarrow(exc) ==
    Dispatch(<<[classes |-> {"RateLimitError", "FuturesTimeoutError"}, action |-> "continue"]>>,
             exc)

\* variant: the Gemini branch gives up on an exception that is not transient
GeminiFallbackHandlerStops(exc) ==
    Dispatch(<<[classes |-> {"RateLimitError", "FuturesTimeoutError"}, action |-> "continue"],
               [classes |-> {"Exception"}, action |-> "return_none"]>>,
             exc)

\* _try_fallback_models, Gemini branch, lines 406-408
GeminiFallbackHandler(exc) ==
    Dispatch(<<[classes |-> {"Exception"}, action |-> "continue"]>>, exc)

FallbackHandler(branch, exc) ==
    IF branch = "openai" THEN OpenAIFallbackHandler(exc) ELSE GeminiFallbackHandler(exc)

(***************************************************************************)
(* State                                                                   *)
(***************************************************************************)
NoneResult == [present |-> FALSE, text |-> <<>>]
TextResult(chars) == [present |-> TRUE, text |-> chars]

NoOutcome == [kind |-> "none", response |-> NoResponse]
ResponseOutcome(r) == [kind |-> "response", response |-> r]
ExceptionOutcome(exc) == [kind |-> exc, response |-> NoResponse]

\* what llm.invoke can do on the worker thread
WorkerOutcomes ==
    {ResponseOutcome(r) : r \in Responses}
    \cup {ExceptionOutcome("RateLimitError"), ExceptionOutcome("Exception"),
          ExceptionOutcome("SystemExit")}

\* outcomes of a client constructor
CtorOutcomes == {"ok", "RateLimitError", "Exception", "SystemExit"}

\* models passed to track_call by callers outside the orchestrator
TrackedModels == {DEFAULT_MODEL, GEMINI_MODEL, GPT_4O}

\* records the threads append
ThreadRecords ==
    {[model |-> DEFAULT_MODEL, success |-> TRUE],
     [model |-> GPT_4O, success |-> FALSE]}

\* the list object a thread has loaded from self._calls: none, the list bound to
\* self._calls now, or the k-th of the lists that reset() has replaced since
NoList == [kind |-> "none", k |-> 0]
Current == [kind |-> "current", k |-> 0]
Replaced(k) == [kind |-> "replaced", k |-> k]

\* the records of the list object ref
ListOf(ref) == IF ref.kind = "current" THEN _calls ELSE replaced[ref.k]

\* the threads are told apart by nothing but the call they are in: a call in
\* progress is [pc, model, success, list], pc the step it is about to take
\* ("load", "append", "return"), and threads is the bag of the calls in progress
CallAt(pc_, model, success, list) ==
    [pc |-> pc_, model |-> model, success |-> success, list |-> list]

\* a call that has appended its record and holds no list any more
Returning == CallAt("return", "", FALSE, NoList)

Put(bag, call) == bag (+) SetToBag({call})
Take(bag, call) == bag (-) SetToBag({call})

\* the list references held by the calls of the bag
ListsOf(bag) == {call.list : call \in BagToSet(bag)}

\* the calls of the bag with each list reference r replaced by to[r], `to`
\* one-to-one on the references the calls hold
Relisted(bag, to) ==
    LET calls == BagToSet(bag)
        Moved(x) == [x EXCEPT !.list = to[@]]
    IN [y \in {Moved(x) : x \in calls} |-> CopiesIn(CHOOSE x \in calls : Moved(x) = y, bag)]

\* the number of calls of the bag that are among `chosen`
CountOf(bag, chosen) ==
    BagCardinality([x \in BagToSet(bag) \cap chosen |-> CopiesIn(x, bag)])

\* threads that entered track_call and have not returned
InFlight == BagCardinality(threads)

\* threads that entered track_call and have not appended
Pending == CountOf(threads, {call \in BagToSet(threads) : call.pc \in {"load", "append"}})

\* values returned by the query methods
RetNothing == [t |-> "nothing"]
RetInt(n) == [t |-> "int", n |-> n]
RetStats(stats) == [t |-> "dict", stats |-> stats]
RetCalls(calls) == [t |-> "list", calls |-> calls]
RetModel(model) == [t |-> "model", model |-> model]

\* the thread that reads the statistics, outside every query method: op is the
\* method it is in, i the number of elements its iteration has taken from the
\* list, names and count what the iteration has collected, ret the value the
\* method is about to return
IdleReader ==
    [op |-> "none", pc |-> "idle", list |-> NoList, i |-> 0, names |-> <<>>,
     count |-> 0, ret |-> RetNothing]

\* `self._calls = []` binds a new list: a thread that has loaded self._calls
\* holds the list that was replaced, which lives on as long as it is held
AfterRebind(ref) ==
    IF ref = Current THEN Replaced(Len(replaced) + 1) ELSE ref

Holds(calls, rd, ref) ==
    \/ \E call \in BagToSet(calls) : call.list = ref
    \/ rd.list = ref

\* the replaced lists still held, with the calls in progress and the reader rd
Live(calls, rd, lists) == {k \in 1..Len(lists) : Holds(calls, rd, Replaced(k))}

Rank(live, k) == Cardinality({j \in live : j <= k})

Renumbered(ref, live) ==
    IF ref.kind = "replaced" THEN Replaced(Rank(live, ref.k)) ELSE ref

RECURSIVE KeptLists(_, _, _)
KeptLists(lists, live, k) ==
    IF k > Len(lists) THEN <<>>
    ELSE (IF k \in live THEN <<lists[k]>> ELSE <<>>) \o KeptLists(lists, live, k + 1)

\* a replaced list that no thread holds any more is freed
Collect(calls, rd, lists) ==
    LET live == Live(calls, rd, lists)
    IN /\ threads' = Relisted(calls, [r \in ListsOf(calls) |-> Renumbered(r, live)])
       /\ reader' = [rd EXCEPT !.list = Renumbered(@, live)]
       /\ replaced' = KeptLists(lists, live, 1)

\* ai_analysis line 96 has run: `tracker = ModelTracker()` made the one object
InitImported ==
    /\ _instance = 1
    /\ objects = 1
    /\ handles = <<1>>

InitCall ==
    /\ pc = "idle"
    /\ phase = "first"
    /\ fallback_models = <<>>
    /\ current_model_index = 0
    /\ scan = 0
    /\ worker = "idle"
    /\ worker_result = NoOutcome
    /\ attempt_outcome = NoOutcome
    /\ log = <<>>
    /\ result = NoneResult
    /\ raised = FALSE
    /\ calls_before = <<>>
    /\ requests = 0
    /\ last_op = "none"
    /\ returned_texts = 0
    /\ threads = EmptyBag
    /\ thread_calls = 0
    /\ reader = IdleReader
    /\ replaced = <<>>

Init ==
    /\ OPENAI_API_KEY \in CredentialValues
    /\ GOOGLE_API_KEY \in CredentialValues
    /\ GEMINI_AVAILABLE \in BOOLEAN
    /\ _calls = <<>>
    /\ primary_model = NotRequested
    /\ llm_config = NoneConfig
    /\ InitCall
    /\ InitImported

(***************************************************************************)
(* Call Tracker operations                                                 *)
(***************************************************************************)
\* tracker.track_call(model, success) called directly
TrackCall(model, success) ==
    /\ pc = "idle"
    /\ Len(_calls) < MaxCalls
    /\ _calls' = track_call(_calls, model, success)
    /\ last_op' = "track_call"
    /\ UNCHANGED <<envVars, threadVars, singletonVars, returned_texts, primary_model, llm_config,
                   callVars>>

\* the methods that only read the records
Queries ==
    {"get_usage_stats", "get_primary_model", "get_all_calls", "get_total_calls",
     "get_successful_calls_count"}

\* tracker.<q>() called while no other thread is inside a method of the
\* tracker: nothing runs between its load of self._calls and its return, and
\* none of the methods assigns or mutates self._calls.  The steps of a query
\* that runs among other threads are the Reader actions.
Query(q) ==
    /\ pc = "idle"
    /\ InFlight = 0
    /\ reader.pc = "idle"
    /\ last_op' = q
    /\ UNCHANGED <<envVars, threadVars, singletonVars, returned_texts>>
    /\ UNCHANGED <<_calls, primary_model, llm_config, callVars>>

\* variant: reset drops the successful records only
ResetKeepsFailed ==
    /\ pc = "idle"
    /\ _calls' = SelectSeq(_calls, LAMBDA call : ~call.success)
    /\ last_op' = "reset"
    /\ returned_texts' = 0
    /\ thread_calls' = 0
    /\ threads' = Relisted(threads, [r \in ListsOf(threads) |-> AfterRebind(r)])
    /\ reader' = [reader EXCEPT !.list = AfterRebind(@)]
    /\ replaced' = IF Holds(threads, reader, Current) THEN Append(replaced, _calls)
                   ELSE replaced
    /\ UNCHANGED <<envVars, singletonVars, primary_model, llm_config, callVars>>

\* tracker.reset(), line 81: it takes no lock and may run while threads are
\* inside track_call or a query; the list it unbinds stays with them
Reset ==
    /\ pc = "idle"
    /\ _calls' = <<>>
    /\ last_op' = "reset"
    /\ returned_texts' = 0
    /\ thread_calls' = 0
    /\ threads' = Relisted(threads, [r \in ListsOf(threads) |-> AfterRebind(r)])
    /\ reader' = [reader EXCEPT !.list = AfterRebind(@)]
    /\ replaced' = IF Holds(threads, reader, Current) THEN Append(replaced, _calls)
                   ELSE replaced
    /\ UNCHANGED <<envVars, singletonVars>>
    /\ UNCHANGED <<primary_model, llm_config, callVars>>

(***************************************************************************)
(* Model Selector                                                          *)
(***************************************************************************)
\* what the constructors do in the selections explored: any set of them raises
\* an Exception and none SystemExit, or one raises SystemExit and the others
\* either all succeed or all raise an Exception
CtorInputs ==
    {[fails |-> f, exits |-> {}] : f \in SUBSET PrimaryModels}
    \cup UNION {{[fails |-> {}, exits |-> {m}],
                 [fails |-> PrimaryModels \ {m}, exits |-> {m}]} :
                    m \in {DEFAULT_MODEL, GEMINI_MODEL}}

\* a selection is explored only while a request may still follow it; an
\* exception that leaves get_llm_with_fallback reaches the selector's caller,
\* and the last returned config and its argument stay as they were
GetLLMWithFallback(primary, ctor_fails, ctor_exits) ==
    /\ pc = "idle"
    /\ requests < MaxRequests
    /\ ctor_fails \cap ctor_exits = {}
    /\ \E got \in {get_llm_with_fallback(primary, ctor_fails, ctor_exits, OPENAI_API_KEY,
                                         GOOGLE_API_KEY, GEMINI_AVAILABLE)} :
          IF got.raised = ""
          THEN /\ primary_model' = primary
               /\ llm_config' = got.value
               /\ pc' = pc
          ELSE /\ pc' = "selector_raised"
               /\ UNCHANGED <<primary_model, llm_config>>
    /\ UNCHANGED <<envVars, threadVars, singletonVars, returned_texts>>
    /\ last_op' = "none"
    /\ UNCHANGED <<_calls, phase, fallback_models, current_model_index, scan, worker,
                   worker_result, attempt_outcome, log, result, raised, calls_before,
                   requests>>

(***************************************************************************)
(* Fallback Orchestrator and Bounded Invoker                               *)
(***************************************************************************)
\* variant: every attempt is attributed to the resolved model
CurrentModelResolved ==
    llm_config.model_name

\* the model of the attempt in progress
CurrentModel ==
    IF phase = "first" THEN llm_config.model_name ELSE fallback_models[scan]

\* the client of the attempt in progress: the one the config carries (line 428) or
\* the one built for the candidate by the scan (lines 372, 395)
CurrentClient ==
    IF phase = "first" THEN [model |-> llm_config.llm, built_by |-> "selector"]
    ELSE [model |-> fallback_models[scan], built_by |-> "scan"]

\* variant: the guard for an absent config is missing
ConfigIsNoneUnchecked(config) == FALSE

\* line 424: `llm_config is None`
ConfigIsNone(config) == ~config.present

\* variant: the test of line 435 is missing, the model name is always put at the
\* front of the list
InvokeLLMWithFallbackInserts ==
    /\ pc = "idle"
    /\ requests < MaxRequests
    /\ requests' = requests + 1
    /\ calls_before' = _calls
    /\ log' = <<>>
    /\ raised' = FALSE
    /\ phase' = "first"
    /\ scan' = 0
    /\ attempt_outcome' = NoOutcome
    /\ IF ConfigIsNone(llm_config)
       THEN /\ pc' = "done"
            /\ result' = NoneResult
            /\ UNCHANGED <<fallback_models, current_model_index, llm_config>>
       ELSE /\ pc' = "submit"
            /\ result' = NoneResult
            /\ fallback_models' =
                   InsertFront(llm_config.fallback_models, llm_config.model_name)
            /\ current_model_index' = 1
            /\ llm_config' =
                   [llm_config EXCEPT !.fallback_models =
                       InsertFront(llm_config.fallback_models, llm_config.model_name)]
    /\ UNCHANGED <<envVars, threadVars, singletonVars, returned_texts>>
    /\ last_op' = "none"
    /\ UNCHANGED <<_calls, primary_model, worker, worker_result>>

\* invoke_llm_with_fallback, lines 424-441.  fallback_models is the list object
\* of the config (line 429), so the insert of line 438 changes the config too
InvokeLLMWithFallback ==
    /\ pc = "idle"
    /\ requests < MaxRequests
    /\ requests' = requests + 1
    /\ calls_before' = _calls
    /\ log' = <<>>
    /\ raised' = FALSE
    /\ phase' = "first"
    /\ scan' = 0
    /\ attempt_outcome' = NoOutcome
    /\ IF ConfigIsNone(llm_config)
       THEN /\ pc' = "done"
            /\ result' = NoneResult
            /\ UNCHANGED <<fallback_models, current_model_index, llm_config>>
       ELSE /\ pc' = "submit"
            /\ result' = NoneResult
            /\ IF Contains(llm_config.fallback_models, llm_config.model_name)
               THEN /\ fallback_models' = llm_config.fallback_models
                    /\ current_model_index' =
                           IndexOf(llm_config.fallback_models, llm_config.model_name, 1)
                    /\ UNCHANGED llm_config
               ELSE /\ fallback_models' =
                           InsertFront(llm_config.fallback_models, llm_config.model_name)
                    /\ current_model_index' = 1
                    /\ llm_config' =
                           [llm_config EXCEPT !.fallback_models =
                               InsertFront(llm_config.fallback_models, llm_config.model_name)]
    /\ UNCHANGED <<envVars, threadVars, singletonVars, returned_texts>>
    /\ last_op' = "none"
    /\ UNCHANGED <<_calls, primary_model, worker, worker_result>>

\* _invoke_with_timeout, line 333: executor.submit(llm.invoke, messages)
Submit ==
    /\ pc = "submit"
    /\ worker = "idle"
    /\ worker' = "running"
    /\ pc' = "waiting"
    /\ UNCHANGED <<envVars, threadVars, singletonVars, returned_texts>>
    /\ last_op' = "none"
    /\ UNCHANGED <<_calls, primary_model, llm_config, phase, fallback_models,
                   current_model_index, scan, worker_result, attempt_outcome, log,
                   result, raised, calls_before, requests>>

\* llm.invoke returns or raises on the worker thread
WorkerCompletes(outcome) ==
    /\ worker = "running"
    /\ worker' = "finished"
    /\ worker_result' = outcome
    /\ UNCHANGED <<envVars, threadVars, singletonVars, returned_texts>>
    /\ last_op' = "none"
    /\ UNCHANGED <<_calls, primary_model, llm_config, pc, phase, fallback_models,
                   current_model_index, scan, attempt_outcome, log, result, raised,
                   calls_before, requests>>

\* line 335: future.result(timeout) hands over the worker's result or exception;
\* leaving the with block joins the finished worker
FutureResult ==
    /\ pc = "waiting"
    /\ worker = "finished"
    /\ attempt_outcome' = worker_result
    /\ worker' = "idle"
    /\ worker_result' = NoOutcome
    /\ pc' = "resolved"
    /\ UNCHANGED <<envVars, threadVars, singletonVars, returned_texts>>
    /\ last_op' = "none"
    /\ UNCHANGED <<_calls, primary_model, llm_config, phase, fallback_models,
                   current_model_index, scan, log, result, raised, calls_before,
                   requests>>

\* lines 336-338: the deadline passes while the worker is still running
FutureTimeout ==
    /\ pc = "waiting"
    /\ worker = "running"
    /\ pc' = "timed_out"
    /\ UNCHANGED <<envVars, threadVars, singletonVars, returned_texts>>
    /\ last_op' = "none"
    /\ UNCHANGED <<_calls, primary_model, llm_config, phase, fallback_models,
                   current_model_index, scan, worker, worker_result, attempt_outcome,
                   log, result, raised, calls_before, requests>>

\* variant: what the joined worker produced is handed to the caller
ExecutorShutdownDelivers ==
    /\ pc = "timed_out"
    /\ worker = "finished"
    /\ attempt_outcome' = worker_result
    /\ worker' = "idle"
    /\ worker_result' = NoOutcome
    /\ pc' = "resolved"
    /\ UNCHANGED <<envVars, threadVars, singletonVars, returned_texts>>
    /\ last_op' = "none"
    /\ UNCHANGED <<_calls, primary_model, llm_config, phase, fallback_models,
                   current_model_index, scan, log, result, raised, calls_before,
                   requests>>

\* line 332: leaving `with ThreadPoolExecutor(...)` runs shutdown(wait=True), which
\* joins the worker; only then does FuturesTimeoutError reach the caller
ExecutorShutdown ==
    /\ pc = "timed_out"
    /\ worker = "finished"
    /\ attempt_outcome' = ExceptionOutcome("FuturesTimeoutError")
    /\ worker' = "idle"
    /\ worker_result' = NoOutcome
    /\ pc' = "resolved"
    /\ UNCHANGED <<envVars, threadVars, singletonVars, returned_texts>>
    /\ last_op' = "none"
    /\ UNCHANGED <<_calls, primary_model, llm_config, phase, fallback_models,
                   current_model_index, scan, log, result, raised, calls_before,
                   requests>>

\* the exception an attempt ends with, "ok" when it produced a text
AttemptException(outcome) ==
    IF outcome.kind = "response"
    THEN IF _extract_text_from_response(outcome.response).ok THEN "ok" ELSE "Exception"
    ELSE outcome.kind

\* variant: the text is returned without a tracker call
SucceedUntracked ==
    /\ result' = TextResult(_extract_text_from_response(attempt_outcome.response).text)
    /\ _calls' = _calls
    /\ log' = Append(log, [model |-> CurrentModel, outcome |-> "ok",
                           client |-> CurrentClient])
    /\ last_op' = "track_call"
    /\ returned_texts' = returned_texts + 1
    /\ pc' = "done"
    /\ UNCHANGED <<scan, raised, attempt_outcome>>

\* lines 446-450 / 378-383 / 400-405: normalise, track, return
Succeed ==
    /\ result' = TextResult(_extract_text_from_response(attempt_outcome.response).text)
    /\ _calls' = track_call(_calls, CurrentModel, TRUE)
    /\ log' = Append(log, [model |-> CurrentModel, outcome |-> "ok",
                           client |-> CurrentClient])
    /\ last_op' = "track_call"
    /\ returned_texts' = returned_texts + 1
    /\ pc' = "done"
    /\ UNCHANGED <<scan, raised, attempt_outcome>>

\* variant: a failed attempt is recorded with success=False
FailureRecordsTracked(calls, model) == track_call(calls, model, FALSE)

\* the tracker after an except block ran: no except block calls the tracker
FailureRecords(calls, model) == calls

\* variant: the fallback scan starts at the resolved model itself
HandleRescansResolved(action, exc) ==
    /\ log' = Append(log, [model |-> CurrentModel, outcome |-> exc,
                           client |-> CurrentClient])
    /\ attempt_outcome' = NoOutcome
    /\ last_op' = "none"
    /\ UNCHANGED returned_texts
    /\ _calls' = FailureRecords(_calls, CurrentModel)
    /\ CASE action = "fallback" ->
                /\ pc' = "scan"
                /\ scan' = current_model_index
                /\ UNCHANGED <<result, raised>>
         [] action = "continue" ->
                /\ pc' = "scan"
                /\ scan' = scan + 1
                /\ UNCHANGED <<result, raised>>
         [] action = "return_none" ->
                /\ pc' = "done"
                /\ result' = NoneResult
                /\ UNCHANGED <<scan, raised>>
         [] OTHER ->
                /\ pc' = "raised"
                /\ raised' = TRUE
                /\ UNCHANGED <<scan, result>>

\* an except clause was chosen for exception exc of the attempt on CurrentModel
Handle(action, exc) ==
    /\ log' = Append(log, [model |-> CurrentModel, outcome |-> exc,
                           client |-> CurrentClient])
    /\ attempt_outcome' = NoOutcome
    /\ last_op' = "none"
    /\ UNCHANGED returned_texts
    /\ _calls' = FailureRecords(_calls, CurrentModel)
    /\ CASE action = "fallback" ->
                /\ pc' = "scan"
                /\ scan' = current_model_index + 1
                /\ UNCHANGED <<result, raised>>
         [] action = "continue" ->
                /\ pc' = "scan"
                /\ scan' = scan + 1
                /\ UNCHANGED <<result, raised>>
         [] action = "return_none" ->
                /\ pc' = "done"
                /\ result' = NoneResult
                /\ UNCHANGED <<scan, raised>>
         [] OTHER ->
                /\ pc' = "raised"
                /\ raised' = TRUE
                /\ UNCHANGED <<scan, result>>

\* invoke_llm_with_fallback, lines 444-476: the first attempt is resolved
FirstAttemptResolved ==
    /\ pc = "resolved"
    /\ phase = "first"
    /\ LET exc == AttemptException(attempt_outcome)
       IN IF exc = "ok" THEN Succeed
          ELSE Handle(FirstAttemptHandler(exc, llm_config.provider), exc)
    /\ phase' = "fallback"
    /\ UNCHANGED <<envVars, threadVars, singletonVars>>
    /\ UNCHANGED <<primary_model, llm_config, fallback_models,
                   current_model_index, worker, worker_result, calls_before, requests>>

\* variant: the scan does not notice that the slice is used up
FallbackExhaustedStuck ==
    /\ pc = "scan"
    /\ scan > Len(fallback_models)
    /\ UNCHANGED vars

\* _try_fallback_models, line 364 then 410: the slice is used up
FallbackExhausted ==
    /\ pc = "scan"
    /\ scan > Len(fallback_models)
    /\ pc' = "done"
    /\ result' = NoneResult
    /\ UNCHANGED <<envVars, threadVars, singletonVars, returned_texts>>
    /\ last_op' = "none"
    /\ UNCHANGED <<_calls, primary_model, llm_config, phase, fallback_models,
                   current_model_index, scan, worker, worker_result, attempt_outcome,
                   log, raised, calls_before, requests>>

\* variant: a candidate that takes neither branch ends the scan
FallbackSkipEnds ==
    /\ pc = "scan"
    /\ scan <= Len(fallback_models)
    /\ Branch(fallback_models[scan], OPENAI_API_KEY, GOOGLE_API_KEY, GEMINI_AVAILABLE)
         = "skip"
    /\ pc' = "done"
    /\ result' = NoneResult
    /\ UNCHANGED <<envVars, threadVars, singletonVars, returned_texts>>
    /\ last_op' = "none"
    /\ UNCHANGED <<_calls, primary_model, llm_config, phase, fallback_models,
                   current_model_index, scan, worker, worker_result, attempt_outcome, log,
                   raised, calls_before, requests>>

\* lines 369 and 392 both false: the candidate takes neither branch
FallbackSkip ==
    /\ pc = "scan"
    /\ scan <= Len(fallback_models)
    /\ Branch(fallback_models[scan], OPENAI_API_KEY, GOOGLE_API_KEY, GEMINI_AVAILABLE)
         = "skip"
    /\ scan' = scan + 1
    /\ UNCHANGED <<envVars, threadVars, singletonVars, returned_texts>>
    /\ last_op' = "none"
    /\ UNCHANGED <<_calls, primary_model, llm_config, pc, phase, fallback_models,
                   current_model_index, worker, worker_result, attempt_outcome, log,
                   result, raised, calls_before, requests>>

\* lines 372-377 / 395-399: the client of the candidate is constructed
FallbackConstruct(ctor) ==
    /\ pc = "scan"
    /\ scan <= Len(fallback_models)
    /\ LET branch == Branch(fallback_models[scan], OPENAI_API_KEY, GOOGLE_API_KEY,
                            GEMINI_AVAILABLE)
       IN /\ branch # "skip"
          /\ IF ctor = "ok"
             THEN /\ pc' = "submit"
                  /\ last_op' = "none"
                  /\ UNCHANGED <<_calls, log, scan, result, raised, attempt_outcome,
                                 returned_texts>>
             ELSE Handle(FallbackHandler(branch, ctor), ctor)
    /\ UNCHANGED <<envVars, threadVars, singletonVars>>
    /\ UNCHANGED <<primary_model, llm_config, phase, fallback_models,
                   current_model_index, worker, worker_result, calls_before, requests>>

\* lines 378-389 / 400-408: a fallback attempt is resolved
FallbackAttemptResolved ==
    /\ pc = "resolved"
    /\ phase = "fallback"
    /\ LET exc == AttemptException(attempt_outcome)
           branch == Branch(fallback_models[scan], OPENAI_API_KEY, GOOGLE_API_KEY,
                            GEMINI_AVAILABLE)
       IN IF exc = "ok" THEN Succeed
          ELSE Handle(FallbackHandler(branch, exc), exc)
    /\ UNCHANGED <<envVars, threadVars, singletonVars>>
    /\ UNCHANGED <<primary_model, llm_config, phase, fallback_models,
                   current_model_index, worker, worker_result, calls_before, requests>>

\* the call has returned to the report-section generator: its locals are gone
Return ==
    /\ pc = "done"
    /\ pc' = "idle"
    /\ phase' = "first"
    /\ fallback_models' = <<>>
    /\ current_model_index' = 0
    /\ scan' = 0
    /\ attempt_outcome' = NoOutcome
    /\ log' = <<>>
    /\ result' = NoneResult
    /\ calls_before' = <<>>
    /\ UNCHANGED <<envVars, threadVars, singletonVars, returned_texts>>
    /\ last_op' = "none"
    /\ UNCHANGED <<_calls, primary_model, llm_config, worker, worker_result,
                   raised, requests>>

Next ==
    \/ \E p \in PrimaryModels, c \in CtorInputs :
          GetLLMWithFallback(p, c.fails, c.exits)
    \/ InvokeLLMWithFallback
    \/ Submit
    \/ \E o \in WorkerOutcomes : WorkerCompletes(o)
    \/ FutureResult
    \/ FutureTimeout
    \/ ExecutorShutdown
    \/ FirstAttemptResolved
    \/ FallbackExhausted
    \/ FallbackSkip
    \/ \E c \in CtorOutcomes : FallbackConstruct(c)
    \/ FallbackAttemptResolved
    \/ Return
    \/ Reset

Spec == Init /\ [][Next]_vars

\* the selector on its own: any sequence of get_llm_with_fallback calls
NextSelector ==
    \E p \in PrimaryModels, c \in CtorInputs :
          GetLLMWithFallback(p, c.fails, c.exits)

SpecSelector == Init /\ [][NextSelector]_vars

\* the steps of a call in progress: the caller's sequential code and the worker
\* thread of the attempt
CallStep ==
    \/ Submit
    \/ \E o \in WorkerOutcomes : WorkerCompletes(o)
    \/ FutureResult
    \/ FutureTimeout
    \/ ExecutorShutdown
    \/ FirstAttemptResolved
    \/ FallbackExhausted
    \/ FallbackSkip
    \/ \E c \in CtorOutcomes : FallbackConstruct(c)
    \/ FallbackAttemptResolved

\* the caller's thread keeps running and the worker's llm.invoke comes back
SpecFair == Spec /\ WF_vars(CallStep)

(***************************************************************************)
(* The tracker on its own, called from one thread: any sequence of         *)
(* track_call, reset and the queries                                       *)
(***************************************************************************)
InitTracker ==
    /\ OPENAI_API_KEY = NoneStr
    /\ GOOGLE_API_KEY = NoneStr
    /\ GEMINI_AVAILABLE = FALSE
    /\ _calls = <<>>
    /\ primary_model = NotRequested
    /\ llm_config = NoneConfig
    /\ InitCall
    /\ InitImported

NextTracker ==
    \/ \E m \in TrackedModels, s \in BOOLEAN : TrackCall(m, s)
    \/ Reset
    \/ \E q \in Queries : Query(q)

SpecTracker == InitTracker /\ [][NextTracker]_vars

(***************************************************************************)
(* The tracker called from several threads.  No method takes a lock.       *)
(* `self._calls.append({...})` of line 35 runs in four steps: the thread   *)
(* enters track_call, it loads self._calls (the list object then bound to  *)
(* the attribute), list.append runs as one step of the interpreter on the  *)
(* list that was loaded, and the method returns.  A query method loads     *)
(* self._calls and then works on the list object it loaded: len() and      *)
(* copy() are one step, an iteration takes one element per step and ends   *)
(* when its index reaches the length the list has at that moment.  The     *)
(* steps of the threads, of the reader and reset interleave freely.        *)
(* Nothing in the program names a thread, so the threads are the bag of    *)
(* the calls they are in.                                                  *)
(***************************************************************************)
\* a thread enters track_call(model_name, success)
ThreadCall(rec) ==
    /\ pc = "idle"
    /\ InFlight < MaxThreads
    /\ Len(_calls) + Pending < MaxRecords
    /\ threads' = Put(threads, CallAt("load", rec.model, rec.success, NoList))
    /\ last_op' = "none"
    /\ UNCHANGED <<envVars, singletonVars, returned_texts, thread_calls, reader,
                   replaced>>
    /\ UNCHANGED <<_calls, primary_model, llm_config, callVars>>

\* line 35, `self._calls.append`: the thread of a call loads the list bound to
\* self._calls
ThreadLoad ==
    \E call \in BagToSet(threads) :
        /\ call.pc = "load"
        /\ threads' = Put(Take(threads, call), [call EXCEPT !.pc = "append", !.list = Current])
        /\ thread_calls' = thread_calls + 1
        /\ last_op' = "none"
        /\ UNCHANGED <<envVars, singletonVars, returned_texts, reader, replaced>>
        /\ UNCHANGED <<_calls, primary_model, llm_config, callVars>>

\* variant: the append of a thread is lost when another thread is about to append
\* to the same list
ThreadAppendLost ==
    \E call \in BagToSet(threads) :
        /\ call.pc = "append"
        /\ LET lost == \E other \in BagToSet(Take(threads, call)) :
                           other.pc = "append" /\ other.list = call.list
               appended == IF lost THEN ListOf(call.list)
                           ELSE track_call(ListOf(call.list), call.model, call.success)
           IN /\ _calls' = IF call.list = Current THEN appended ELSE _calls
              /\ Collect(Put(Take(threads, call), Returning),
                         reader,
                         IF call.list = Current THEN replaced
                         ELSE [replaced EXCEPT ![call.list.k] = appended])
        /\ last_op' = "none"
        /\ UNCHANGED <<envVars, singletonVars, returned_texts, thread_calls>>
        /\ UNCHANGED <<primary_model, llm_config, callVars>>

\* lines 35-38: list.append(record) on the list the thread loaded, which is the
\* bound list or one that reset() has replaced meanwhile
ThreadAppend ==
    \E call \in BagToSet(threads) :
        /\ call.pc = "append"
        /\ LET appended == track_call(ListOf(call.list), call.model, call.success)
           IN /\ _calls' = IF call.list = Current THEN appended ELSE _calls
              /\ Collect(Put(Take(threads, call), Returning),
                         reader,
                         IF call.list = Current THEN replaced
                         ELSE [replaced EXCEPT ![call.list.k] = appended])
        /\ last_op' = "none"
        /\ UNCHANGED <<envVars, singletonVars, returned_texts, thread_calls>>
        /\ UNCHANGED <<primary_model, llm_config, callVars>>

\* track_call returns to its thread
ThreadReturn ==
    \E call \in BagToSet(threads) :
        /\ call.pc = "return"
        /\ threads' = Take(threads, call)
        /\ last_op' = "track_call"
        /\ UNCHANGED <<envVars, singletonVars, returned_texts, thread_calls, reader,
                       replaced>>
        /\ UNCHANGED <<_calls, primary_model, llm_config, callVars>>

\* get_usage_stats and get_primary_model, which calls it: lines 47-52
CountsByModel == {"get_usage_stats", "get_primary_model"}

\* the reader enters query method q
ReaderCall(q) ==
    /\ pc = "idle"
    /\ reader.pc = "idle"
    /\ reader' = [IdleReader EXCEPT !.op = q, !.pc = "load"]
    /\ last_op' = "none"
    /\ UNCHANGED <<envVars, singletonVars, returned_texts, threads, thread_calls,
                   replaced>>
    /\ UNCHANGED <<_calls, primary_model, llm_config, callVars>>

\* the reader loads self._calls: for `if not self._calls` (line 47), for the
\* iteration (lines 51, 99) or for len() and copy() (lines 90, 75)
ReaderLoad ==
    /\ reader.pc \in {"load", "reload"}
    /\ reader' = [reader EXCEPT
                     !.list = Current,
                     !.pc = IF reader.pc = "reload" THEN "iterate"
                            ELSE IF reader.op \in CountsByModel THEN "test"
                            ELSE IF reader.op = "get_successful_calls_count"
                            THEN "iterate"
                            ELSE "read"]
    /\ last_op' = "none"
    /\ UNCHANGED <<envVars, singletonVars, returned_texts, threads, thread_calls,
                   replaced>>
    /\ UNCHANGED <<_calls, primary_model, llm_config, callVars>>

\* what get_usage_stats, or get_primary_model after it, makes of the names
\* taken from the list: dict(Counter(names)) and lines 62-66
FromNames(q, names) ==
    LET stats == Counter(names)
    IN IF q = "get_usage_stats" THEN RetStats(stats)
       ELSE IF stats = <<>> THEN RetModel(NoneModel)
       ELSE RetModel([present |-> TRUE, name |-> stats[MaxItem(stats, 1, 1)].key])

\* line 47, `if not self._calls: return {}`, on the list just loaded; the
\* comprehension of line 51 loads self._calls again
ReaderTest ==
    /\ reader.pc = "test"
    /\ Collect(threads,
               IF ListOf(reader.list) = <<>>
               THEN [reader EXCEPT !.pc = "return", !.list = NoList,
                                   !.ret = FromNames(reader.op, <<>>)]
               ELSE [reader EXCEPT !.pc = "reload", !.list = NoList],
               replaced)
    /\ last_op' = "none"
    /\ UNCHANGED <<envVars, singletonVars, returned_texts, thread_calls>>
    /\ UNCHANGED <<_calls, primary_model, llm_config, callVars>>

\* one step of `for call in self._calls` (lines 51, 99): the next element of
\* the list if it has one now, else the end of the loop and the value to return
ReaderIterate ==
    /\ reader.pc = "iterate"
    /\ LET calls == ListOf(reader.list)
       IN IF reader.i < Len(calls)
          THEN LET call == calls[reader.i + 1]
               IN Collect(threads,
                          [reader EXCEPT
                              !.i = @ + 1,
                              !.names = IF reader.op \in CountsByModel /\ call.success
                                        THEN Append(@, call.model) ELSE @,
                              !.count = IF reader.op \notin CountsByModel /\ call.success
                                        THEN @ + 1 ELSE @],
                          replaced)
          ELSE Collect(threads,
                       [IdleReader EXCEPT
                           !.op = reader.op,
                           !.pc = "return",
                           !.ret = IF reader.op \in CountsByModel
                                   THEN FromNames(reader.op, reader.names)
                                   ELSE RetInt(reader.count)],
                       replaced)
    /\ last_op' = "none"
    /\ UNCHANGED <<envVars, singletonVars, returned_texts, thread_calls>>
    /\ UNCHANGED <<_calls, primary_model, llm_config, callVars>>

\* len(...) of line 90 or .copy() of line 75 on the list loaded
ReaderRead ==
    /\ reader.pc = "read"
    /\ Collect(threads,
               [reader EXCEPT
                   !.pc = "return",
                   !.list = NoList,
                   !.ret = IF reader.op = "get_total_calls"
                           THEN RetInt(get_total_calls(ListOf(reader.list)))
                           ELSE RetCalls(get_all_calls(ListOf(reader.list)))],
               replaced)
    /\ last_op' = "none"
    /\ UNCHANGED <<envVars, singletonVars, returned_texts, thread_calls>>
    /\ UNCHANGED <<_calls, primary_model, llm_config, callVars>>

\* the query method returns reader.ret
ReaderReturn ==
    /\ reader.pc = "return"
    /\ reader' = IdleReader
    /\ last_op' = reader.op
    /\ UNCHANGED <<envVars, singletonVars, returned_texts, threads, thread_calls,
                   replaced>>
    /\ UNCHANGED <<_calls, primary_model, llm_config, callVars>>

NextConcurrent ==
    \/ \E rec \in ThreadRecords : ThreadCall(rec)
    \/ ThreadLoad
    \/ ThreadAppend
    \/ ThreadReturn
    \/ \E q \in Queries : ReaderCall(q)
    \/ ReaderLoad
    \/ ReaderTest
    \/ ReaderIterate
    \/ ReaderRead
    \/ ReaderReturn
    \/ Reset

SpecConcurrent == InitTracker /\ [][NextConcurrent]_vars

(***************************************************************************)
(* The tracker as a singleton: ModelTracker() called from several places   *)
(***************************************************************************)
\* variant: every construction empties the record list
__new__Clears(inst, nobjects, calls) ==
    IF inst = 0
    THEN [_instance |-> nobjects + 1, objects |-> nobjects + 1, _calls |-> <<>>]
    ELSE [_instance |-> inst, objects |-> nobjects, _calls |-> <<>>]

\* ModelTracker.__new__: allocate and empty the list only when no instance exists
__new__(inst, nobjects, calls) ==
    IF inst = 0
    THEN [_instance |-> nobjects + 1, objects |-> nobjects + 1, _calls |-> <<>>]
    ELSE [_instance |-> inst, objects |-> nobjects, _calls |-> calls]

\* the record list read through the object `obj`
CallsOf(inst, calls, obj) == IF obj = inst THEN calls ELSE <<>>

\* class body executed, no ModelTracker() call yet
InitSingleton ==
    /\ OPENAI_API_KEY = NoneStr
    /\ GOOGLE_API_KEY = NoneStr
    /\ GEMINI_AVAILABLE = FALSE
    /\ _calls = <<>>
    /\ primary_model = NotRequested
    /\ llm_config = NoneConfig
    /\ InitCall
    /\ _instance = 0
    /\ objects = 0
    /\ handles = <<>>

\* handle = ModelTracker()
NewTracker ==
    /\ Len(handles) < MaxHandles
    /\ LET made == __new__(_instance, objects, _calls) IN
           /\ _instance' = made._instance
           /\ objects' = made.objects
           /\ _calls' = made._calls
           /\ handles' = Append(handles, made._instance)
    /\ last_op' = "none"
    /\ UNCHANGED <<envVars, threadVars, returned_texts, primary_model, llm_config, callVars>>

\* handles[h].track_call(model, success)
TrackCallVia(h, model, success) ==
    /\ Len(_calls) < MaxCalls
    /\ _calls' = IF handles[h] = _instance
                 THEN track_call(_calls, model, success) ELSE _calls
    /\ last_op' = "track_call"
    /\ UNCHANGED <<envVars, threadVars, singletonVars, returned_texts, primary_model, llm_config,
                   callVars>>

\* handles[h].reset()
ResetVia(h) ==
    /\ _calls' = IF handles[h] = _instance THEN <<>> ELSE _calls
    /\ last_op' = "reset"
    /\ UNCHANGED <<envVars, threadVars, singletonVars, returned_texts, primary_model, llm_config,
                   callVars>>

NextSingleton ==
    \/ NewTracker
    \/ \E h \in 1..Len(handles), m \in TrackedModels, s \in BOOLEAN :
           TrackCallVia(h, m, s)
    \/ \E h \in 1..Len(handles) : ResetVia(h)

SpecSingleton == InitSingleton /\ [][NextSingleton]_vars

(***************************************************************************)
(* The normalizer on its own: _extract_text_from_response applied to one   *)
(* response of any of the shapes it distinguishes                          *)
(***************************************************************************)
\* list elements: fragments with a string, empty, null or missing text, a
\* plain string, any other object
Fragments ==
    {DictText(TextStr(<<"a">>)), DictText(TextStr(<<"b", "c">>)), DictText(TextStr(<<>>)),
     DictText(TextNone), DictNoText, StrItem(<<"d">>), OtherItem(<<"7">>)}

FragmentLists == UNION {[1..n -> Fragments] : n \in 0..MaxFragments}

\* values of the accessor under study: text, then content, then parts
AccessorValues ==
    {PyNone, PyStr(<<"s", "t">>), PyOther(<<"0">>)} \cup {PyList(l) : l \in FragmentLists}

\* values of an accessor consulted after the one under study
OtherAccessorValues == {PyNone, PyStr(<<"u">>), PyList(<<DictText(TextStr(<<"v">>))>>)}

NormalizerInputs ==
    {ListResponse(l) : l \in FragmentLists}
    \cup {ObjResponse(TRUE, t, c, FALSE, PyNone) :
            t \in AccessorValues, c \in OtherAccessorValues}
    \cup {ObjResponse(ht, PyNone, c, hp, p) :
            ht \in BOOLEAN, c \in AccessorValues,
            hp \in BOOLEAN, p \in OtherAccessorValues}
    \cup {ObjResponse(ht, PyNone, c, TRUE, p) :
            ht \in BOOLEAN, c \in {PyNone, PyOther(<<"0">>)}, p \in AccessorValues}

\* a caller holds a response and is about to call _extract_text_from_response
InitNormalizer ==
    /\ OPENAI_API_KEY = NoneStr
    /\ GOOGLE_API_KEY = NoneStr
    /\ GEMINI_AVAILABLE = FALSE
    /\ _calls = <<>>
    /\ primary_model = NotRequested
    /\ llm_config = NoneConfig
    /\ InitImported
    /\ pc = "resolved"
    /\ phase = "first"
    /\ fallback_models = <<>>
    /\ current_model_index = 0
    /\ scan = 0
    /\ worker = "idle"
    /\ worker_result = NoOutcome
    /\ attempt_outcome \in {ResponseOutcome(r) : r \in NormalizerInputs}
    /\ log = <<>>
    /\ result = NoneResult
    /\ raised = FALSE
    /\ calls_before = <<>>
    /\ requests = 0
    /\ last_op = "none"
    /\ returned_texts = 0
    /\ threads = EmptyBag
    /\ thread_calls = 0
    /\ reader = IdleReader
    /\ replaced = <<>>

\* result = _extract_text_from_response(response), called directly
Normalize ==
    /\ pc = "resolved"
    /\ LET out == _extract_text_from_response(attempt_outcome.response)
       IN IF out.ok
          THEN result' = TextResult(out.text) /\ raised' = FALSE
          ELSE result' = NoneResult /\ raised' = TRUE
    /\ pc' = "done"
    /\ UNCHANGED <<envVars, threadVars, singletonVars, returned_texts>>
    /\ last_op' = "none"
    /\ UNCHANGED <<_calls, primary_model, llm_config, phase, fallback_models,
                   current_model_index, scan, worker, worker_result, attempt_outcome,
                   log, calls_before, requests>>

NextNormalizer == Normalize

SpecNormalizer == InitNormalizer /\ [][NextNormalizer]_vars

(***************************************************************************)
(* Properties of the fallback orchestrator                                 *)
(***************************************************************************)
CandidateUsable(model) ==
    Branch(model, OPENAI_API_KEY, GOOGLE_API_KEY, GEMINI_AVAILABLE) # "skip"

AllCandidatesUsable ==
    \A i \in 1..Len(fallback_models) : CandidateUsable(fallback_models[i])

\* every attempt of the current call but possibly the last failed with exc-class e
FailedWith(e, n) == \A i \in 1..n : log[i].outcome = e

\* position in the list of the n-th attempt when no candidate is skipped
PositionOfAttempt(n) == current_model_index + n - 1

\* C1: with every candidate usable, when the attempts before candidate k all fail
\* with RateLimitError and candidate k succeeds, the call returns the normalised
\* text of k's response and the tracker gains exactly the record (k, success=True);
\* the attempts are the candidates from the resolved one up to k, none after k, and
\* the call does not end while only RateLimitError failures have happened and a
\* candidate remains.
C1_RateLimitedThenSuccess ==
    (pc = "done" /\ llm_config.present /\ AllCandidatesUsable /\ log # <<>>
        /\ FailedWith("RateLimitError", Len(log) - 1)) =>
        /\ \A i \in 1..Len(log) :
               /\ PositionOfAttempt(i) <= Len(fallback_models)
               /\ log[i].model = fallback_models[PositionOfAttempt(i)]
        /\ log[Len(log)].outcome = "ok" =>
               /\ attempt_outcome.kind = "response"
               /\ _extract_text_from_response(attempt_outcome.response).ok
               /\ result = TextResult(
                      _extract_text_from_response(attempt_outcome.response).text)
               /\ _calls = Append(calls_before,
                                  [model |-> fallback_models[PositionOfAttempt(Len(log))],
                                   success |-> TRUE])
               /\ worker = "idle"
        /\ log[Len(log)].outcome = "RateLimitError" =>
               PositionOfAttempt(Len(log)) = Len(fallback_models)

\* two candidates fail with RateLimitError, the third answers, after an earlier record
C1_Witness ==
    /\ pc = "done"
    /\ AllCandidatesUsable
    /\ Len(log) = 3
    /\ FailedWith("RateLimitError", 2)
    /\ log[3].outcome = "ok"
    /\ Len(fallback_models) = 4
    /\ calls_before # <<>>
    /\ result = TextResult(<<"a", " ", "b">>)

\* the models attempted by the current call, in order
AttemptedModels == [i \in 1..Len(log) |-> log[i].model]

\* the resolved model followed by the usable candidates behind it
UsableFromResolved ==
    <<fallback_models[current_model_index]>>
    \o SelectSeq(SubSeq(fallback_models, current_model_index + 1, Len(fallback_models)),
                 CandidateUsable)

\* C2: when every attempt of a call fails with RateLimitError, every usable
\* candidate from the resolved one on was attempted, the call returns None and the
\* tracker's records are what they were when the call was entered.
C2_AllRateLimitedReturnsNone ==
    (pc = "done" /\ llm_config.present /\ log # <<>>
        /\ FailedWith("RateLimitError", Len(log))) =>
        /\ AttemptedModels = UsableFromResolved
        /\ result = NoneResult
        /\ _calls = calls_before

\* four candidates all fail with RateLimitError, the tracker holding a record before
C2_Witness ==
    /\ pc = "done"
    /\ Len(log) = 4
    /\ FailedWith("RateLimitError", 4)
    /\ calls_before # <<>>
    /\ result = NoneResult

\* C3: no exception escapes invoke_llm_with_fallback; a finished call has returned
\* a text or None.
C3_NeverRaises ==
    /\ ~raised
    /\ pc # "raised"
    /\ pc = "done" => (result = NoneResult \/ (result.present /\ result.text \in Seq(STRING)))

\* C3 amended: an exception leaves invoke_llm_with_fallback only when an attempt
\* ends with an exception that does not derive from Exception (SystemExit,
\* KeyboardInterrupt, GeneratorExit), and such an exception always leaves it;
\* every other outcome of construction, invocation or normalization is caught,
\* and a call that returns holds a text or None.
C3_OnlyBaseExceptionsEscape ==
    /\ raised <=> pc = "raised"
    /\ pc = "raised" => (log # <<>> /\ log[Len(log)].outcome \in BaseExceptionOnly)
    /\ \A i \in 1..Len(log) :
           log[i].outcome \in BaseExceptionOnly => (i = Len(log) /\ pc = "raised")
    /\ pc = "done" => (result = NoneResult \/ (result.present /\ result.text \in Seq(STRING)))

\* an attempt failed with an exception derived from Exception, which was caught,
\* and the attempt on the next candidate ended with SystemExit, which left the call
C3_Witness ==
    /\ pc = "raised"
    /\ Len(log) >= 2
    /\ log[Len(log) - 1].outcome = "Exception"
    /\ log[Len(log)].outcome = "SystemExit"

\* C4: once the deadline has passed, handing FuturesTimeoutError to the caller does
\* not wait for the worker: it is possible whatever the worker is doing.
C4_TimeoutUnblocksCaller ==
    pc = "timed_out" => ENABLED ExecutorShutdown

(***************************************************************************)
(* Properties of the model selector                                        *)
(***************************************************************************)
NoUsableCredential == KeyMissing(OPENAI_API_KEY) /\ KeyMissing(GOOGLE_API_KEY)

\* C5: with no present, non-blank credential get_llm_with_fallback returns None,
\* and invoke_llm_with_fallback on that None returns None with no attempt made, no
\* worker started and the tracker as it was.
C5_NotConfiguredShortCircuits ==
    NoUsableCredential =>
        /\ ~llm_config.present
        /\ pc \in {"idle", "done"}
        /\ worker = "idle"
        /\ log = <<>>
        /\ pc = "done" => (result = NoneResult /\ _calls = calls_before)

\* the selector ran with both credentials blank and the call on its result returned
C5_Witness ==
    /\ OPENAI_API_KEY = Str(<<32, 13, 8195>>)
    /\ GOOGLE_API_KEY = Str(<<>>)
    /\ primary_model # NotRequested
    /\ pc = "done"
    /\ requests = 2

NoDuplicates(list) ==
    \A i, j \in 1..Len(list) : list[i] = list[j] => i = j

\* C6: the candidate list of every config the selector returns has no duplicate
\* and has the requested primary model first.
C6_PrimaryFirstNoDuplicates ==
    llm_config.present =>
        /\ llm_config.fallback_models # <<>>
        /\ NoDuplicates(llm_config.fallback_models)
        /\ llm_config.fallback_models[1] = primary_model

\* a primary of the default set was moved to the front, and one outside it prepended
C6_Witness ==
    /\ llm_config.present
    /\ \/ primary_model = GEMINI_FLASH_MODEL /\ Len(llm_config.fallback_models) = 4
       \/ primary_model = "gpt-4-turbo" /\ Len(llm_config.fallback_models) = 5

GeminiUsable == GEMINI_AVAILABLE /\ KeyPresent(GOOGLE_API_KEY)

\* C7 as stated: every model of the candidate list belongs to a provider whose
\* credential is present and non-blank (and whose library is available).
C7_OnlyUsableProvidersListed ==
    llm_config.present =>
        \A i \in 1..Len(llm_config.fallback_models) :
            CandidateUsable(llm_config.fallback_models[i])

\* C7 amended: a Gemini model other than the requested primary is listed only when
\* the Google credential is present and non-blank and the library available;
\* gpt-5.2 and gpt-4o are listed whatever the credentials; the model the selector
\* resolves to belongs to a usable provider, which is the config's provider.
C7_GeminiGatedResolvedUsable ==
    llm_config.present =>
        /\ \A i \in 1..Len(llm_config.fallback_models) :
               (is_gemini(llm_config.fallback_models[i])
                   /\ llm_config.fallback_models[i] # primary_model) => GeminiUsable
        /\ Contains(llm_config.fallback_models, DEFAULT_MODEL)
        /\ Contains(llm_config.fallback_models, GPT_4O)
        /\ CandidateUsable(llm_config.model_name)
        /\ llm_config.provider =
               (IF is_gemini(llm_config.model_name) THEN "google" ELSE "openai")

\* only the Google credential is usable: the list still names the OpenAI models and
\* the selector resolved to a Gemini model
C7_Witness ==
    /\ llm_config.present
    /\ KeyMissing(OPENAI_API_KEY)
    /\ primary_model = DEFAULT_MODEL
    /\ llm_config.fallback_models =
           <<DEFAULT_MODEL, GEMINI_MODEL, GEMINI_FLASH_MODEL, GPT_4O>>
    /\ llm_config.provider = "google"

DefaultOrder == <<"gpt-5.2", "gemini-3-pro-preview", "gemini-2.5-flash", "gpt-4o">>

\* C8: with both credentials present and the Gemini library available the list for
\* the default primary is gpt-5.2, gemini-3-pro-preview, gemini-2.5-flash, gpt-4o,
\* and for any other primary it is the primary followed by the rest in that order.
C8_ExactOrder ==
    (llm_config.present /\ KeyPresent(OPENAI_API_KEY) /\ GeminiUsable) =>
        /\ primary_model = "gpt-5.2" => llm_config.fallback_models = DefaultOrder
        /\ llm_config.fallback_models =
               <<primary_model>> \o SelectSeq(DefaultOrder, LAMBDA m : m # primary_model)

\* all providers usable: the default primary, and gpt-4o requested as primary
C8_Witness ==
    /\ llm_config.present /\ KeyPresent(OPENAI_API_KEY) /\ GeminiUsable
    /\ \/ primary_model = "gpt-5.2" /\ llm_config.model_name = "gpt-5.2"
       \/ primary_model = "gpt-4o"
            /\ llm_config.fallback_models =
                   <<"gpt-4o", "gpt-5.2", "gemini-3-pro-preview", "gemini-2.5-flash">>

(***************************************************************************)
(* Properties of the call tracker                                          *)
(***************************************************************************)
SuccessfulRecords(model) ==
    {j \in 1..Len(_calls) : _calls[j].success /\ _calls[j].model = model}

RECURSIVE SumCounts(_)
SumCounts(stats) ==
    IF stats = <<>> THEN 0 ELSE Head(stats).count + SumCounts(Tail(stats))

\* C9: usage_stats has one entry per model with a successful record, its count the
\* number of that model's successful records; the counts add up to
\* successful_calls_count, which is at most total_calls.
C9_UsageStatsCountSuccesses ==
    LET stats == get_usage_stats(_calls)
    IN /\ \A i \in 1..Len(stats) :
              /\ stats[i].count = Cardinality(SuccessfulRecords(stats[i].key))
              /\ stats[i].count >= 1
       /\ \A i, j \in 1..Len(stats) : stats[i].key = stats[j].key => i = j
       /\ \A m \in TrackedModels :
              SuccessfulRecords(m) # {} => \E i \in 1..Len(stats) : stats[i].key = m
       /\ SumCounts(stats) = get_successful_calls_count(_calls)
       /\ get_successful_calls_count(_calls) =
              Cardinality({j \in 1..Len(_calls) : _calls[j].success})
       /\ get_successful_calls_count(_calls) <= get_total_calls(_calls)
       /\ get_total_calls(_calls) = Len(_calls)

\* successes of two models mixed with a failure
C9_Witness ==
    /\ Len(_calls) = 4
    /\ Cardinality(SuccessfulRecords(DEFAULT_MODEL)) = 2
    /\ Cardinality(SuccessfulRecords(GEMINI_MODEL)) = 1
    /\ ~_calls[1].success

\* C10: primary_model is None exactly when no record is successful; otherwise it
\* names a model with at least as many successful records as any other model.
C10_PrimaryModelIsMostUsed ==
    LET pm == get_primary_model(_calls)
    IN /\ pm.present <=> (\E j \in 1..Len(_calls) : _calls[j].success)
       /\ ~pm.present => pm = NoneModel
       /\ pm.present =>
              /\ SuccessfulRecords(pm.name) # {}
              /\ \A m \in TrackedModels :
                     Cardinality(SuccessfulRecords(pm.name))
                         >= Cardinality(SuccessfulRecords(m))

\* the most used model is not the first one recorded
C10_Witness ==
    /\ Len(_calls) = 4
    /\ _calls[1] = [model |-> GPT_4O, success |-> TRUE]
    /\ _calls[2] = [model |-> GPT_4O, success |-> FALSE]
    /\ Cardinality(SuccessfulRecords(GEMINI_MODEL)) = 2
    /\ get_primary_model(_calls).name = GEMINI_MODEL

\* only failed records: primary_model is None
C10_WitnessOnlyFailures ==
    /\ Len(_calls) = 2
    /\ \A j \in 1..Len(_calls) : ~_calls[j].success
    /\ ~get_primary_model(_calls).present

\* C11: right after reset total_calls and successful_calls_count are 0, usage_stats
\* is empty and primary_model is None, whatever was tracked before; the first
\* record tracked after a reset is counted from zero.
C11_ResetClearsEverything ==
    [][/\ last_op' = "reset" =>
              /\ get_total_calls(_calls') = 0
              /\ get_successful_calls_count(_calls') = 0
              /\ get_usage_stats(_calls') = <<>>
              /\ get_primary_model(_calls') = NoneModel
       /\ (last_op = "reset" /\ last_op' = "track_call") =>
              /\ get_total_calls(_calls') = 1
              /\ get_successful_calls_count(_calls') =
                     (IF _calls'[1].success THEN 1 ELSE 0)
              /\ get_usage_stats(_calls') =
                     (IF _calls'[1].success
                      THEN <<[key |-> _calls'[1].model, count |-> 1]>> ELSE <<>>)
      ]_vars

\* the tracker right after a reset
C11_Witness ==
    /\ last_op = "reset"
    /\ _calls = <<>>
    /\ get_total_calls(_calls) = 0

\* C12: every ModelTracker() returns the same instance; a construction made when
\* the instance exists leaves its records untouched; a record tracked through
\* one handle is read through every handle.
C12_SingleInstance ==
    [][/\ objects' <= 1
       /\ \A i \in 1..Len(handles') : handles'[i] = _instance'
       /\ (Len(handles') > Len(handles) /\ _instance # 0) => _calls' = _calls
       /\ (last_op' = "track_call" /\ _calls' # _calls) =>
              \A i \in 1..Len(handles') :
                  /\ Len(get_all_calls(CallsOf(_instance', _calls', handles'[i])))
                         = Len(_calls) + 1
                  /\ get_all_calls(CallsOf(_instance', _calls', handles'[i]))
                         [Len(_calls) + 1] = _calls'[Len(_calls')]
      ]_vars

\* three handles taken at different times, records kept across the constructions
C12_Witness ==
    /\ Len(handles) = MaxHandles
    /\ Len(_calls) >= 2
    /\ last_op = "track_call"
    /\ \A i \in 1..Len(handles) : get_all_calls(CallsOf(_instance, _calls, handles[i])) = _calls

\* C13 as stated: every attempt of a call, failed ones included, appended one
\* record, so a finished call has added as many records as it made attempts.
C13_EveryAttemptRecorded ==
    pc = "done" => Len(_calls) = Len(calls_before) + Len(log)

\* the attempts of the call that produced a text
SuccessfulAttempts == {i \in 1..Len(log) : log[i].outcome = "ok"}

\* C13 amended: an attempt that produced a text appends exactly one record
\* (its model, success=True); a failed attempt, first or fallback, appends
\* none; a finished call has added as many records as it had successful attempts.
C13_OnlySuccessfulAttemptRecorded ==
    [][Len(log') = Len(log) + 1 =>
          /\ IF log'[Len(log')].outcome = "ok"
             THEN _calls' = Append(_calls, [model |-> log'[Len(log')].model,
                                            success |-> TRUE])
             ELSE _calls' = _calls
          /\ pc' = "done" =>
                 Len(_calls') = Len(calls_before') + Cardinality(SuccessfulAttempts')
      ]_vars

\* a call that failed twice and then succeeded has added one record
C13_Witness ==
    /\ pc = "done"
    /\ Len(log) = 3
    /\ log[1].outcome # "ok" /\ log[2].outcome # "ok" /\ log[3].outcome = "ok"
    /\ Len(_calls) = Len(calls_before) + 1

\* the candidate the last attempt of the call was made on
LastAttemptedModel ==
    IF Len(log) = 1 THEN llm_config.model_name ELSE fallback_models[scan]

\* C14: the orchestrator tracks successes only: a call appends at most one
\* record, exactly one iff it returns a text, with success=True and the model
\* that answered; total_calls = successful_calls_count = requests that
\* returned a text (since the last reset).
C14_OnlySuccessesTracked ==
    /\ \A i \in 1..Len(_calls) : _calls[i].success
    /\ get_total_calls(_calls) = get_successful_calls_count(_calls)
    /\ get_total_calls(_calls) = returned_texts
    /\ pc \notin {"idle", "selector_raised"} =>
           \/ _calls = calls_before
           \/ Len(_calls) = Len(calls_before) + 1 /\ pc = "done"
    /\ pc = "done" =>
           /\ result.present <=> _calls # calls_before
           /\ result.present =>
                  _calls = Append(calls_before, [model |-> LastAttemptedModel,
                                                 success |-> TRUE])

\* second request of the run ended without a text after two failed attempts,
\* the first one had returned a text: one record in all
C14_Witness ==
    /\ pc = "done"
    /\ requests = 2
    /\ ~result.present
    /\ Len(log) >= 2
    /\ get_total_calls(_calls) = 1
    /\ returned_texts = 1

Transient == {"RateLimitError", "FuturesTimeoutError"}

\* the except clause the attempt in progress takes for exception exc
HandlerOfAttempt(exc) ==
    IF phase = "first" THEN FirstAttemptHandler(exc, llm_config.provider)
    ELSE FallbackHandler(Branch(fallback_models[scan], OPENAI_API_KEY, GOOGLE_API_KEY,
                                GEMINI_AVAILABLE), exc)

\* C15: an attempt that ends in a timeout is handled as one that ends in quota
\* exhaustion: both take the same except clause, and the step moves to the
\* next candidate, returns nothing yet and leaves the tracker as it was,
\* whichever of the two the failure is; what is attempted, returned and
\* recorded afterwards depends on that state only.
C15_TimeoutLikeRateLimited ==
    [][(pc = "resolved" /\ attempt_outcome.kind \in Transient) =>
          /\ HandlerOfAttempt("FuturesTimeoutError") = HandlerOfAttempt("RateLimitError")
          /\ pc' = "scan"
          /\ scan' = IF phase = "first" THEN current_model_index + 1 ELSE scan + 1
          /\ _calls' = _calls
          /\ result' = result
          /\ raised' = raised
          /\ fallback_models' = fallback_models
          /\ Len(log') = Len(log) + 1
          /\ log'[Len(log')].model = CurrentModel
      ]_vars

\* a call in which one candidate timed out, another was rate limited, and a
\* later one answered
C15_Witness ==
    /\ pc = "done"
    /\ result.present
    /\ \E i, j \in 1..Len(log) :
           /\ log[i].outcome = "FuturesTimeoutError"
           /\ log[j].outcome = "RateLimitError"
           /\ is_gemini(log[i].model) # is_gemini(log[j].model)

\* C16 as stated: an exception that is neither quota exhaustion nor timeout
\* ends the call with None when the candidate is a Gemini one, wherever the
\* candidate sits in the list, and lets the call go on to the next candidate
\* when it is an OpenAI one.
C16_GeminiErrorEndsCallAnywhere ==
    \A i \in 1..Len(log) :
        log[i].outcome = "Exception" =>
            IF is_gemini(log[i].model)
            THEN i = Len(log) /\ pc = "done" /\ ~result.present
            ELSE (i = Len(log) /\ pc = "done") => scan > Len(fallback_models)

\* C16 amended: on the first attempt such an exception makes an OpenAI
\* resolved model fall back to the candidates after it, and a Gemini resolved
\* model end the call with None and no further attempt; on a fallback
\* candidate the scan goes on to the next candidate whatever the provider.
\* Nothing is recorded in either case.
C16_OtherExceptionByPosition ==
    [][(pc = "resolved" /\ AttemptException(attempt_outcome) = "Exception") =>
          /\ _calls' = _calls
          /\ raised' = raised
          /\ IF phase = "first"
             THEN IF llm_config.provider = "openai"
                  THEN /\ pc' = "scan"
                       /\ scan' = current_model_index + 1
                       /\ result' = result
                  ELSE /\ is_gemini(llm_config.model_name)
                       /\ pc' = "done"
                       /\ result' = NoneResult
                       /\ Len(log') = 1
             ELSE /\ pc' = "scan"
                  /\ scan' = scan + 1
                  /\ result' = result
      ]_vars

\* a Gemini resolved model failed with another exception on the first attempt:
\* the call is over with None although usable candidates follow it in the list
C16_Witness ==
    /\ pc = "done"
    /\ ~result.present
    /\ Len(log) = 1
    /\ log[1].outcome = "Exception"
    /\ is_gemini(log[1].model)
    /\ current_model_index < Len(fallback_models)
    /\ \E k \in (current_model_index + 1)..Len(fallback_models) :
           CandidateUsable(fallback_models[k])

\* C17: the normalizer returns a string and raises nothing, whatever the shape
\* of the response and of its fragments.
C17_NormalizerNeverFails ==
    pc = "done" => (~raised /\ result.present)

\* the list the normalizer takes the fragments from, when it takes them from one
FragmentSource(r) ==
    IF r.isList THEN r.items
    ELSE IF r.hasText /\ r.text.t = "list" THEN r.text.items
    ELSE r.content.items

HasFragmentSource(r) ==
    \/ r.isList
    \/ r.hasText /\ r.text.t = "list"
    \/ ~(r.hasText /\ r.text.t = "str") /\ r.content.t = "list"

CarriesText(item) == item.t = "dict" /\ item.hasText /\ item.text.isStr

\* where the text of fragment k starts in the joined string, less one
RECURSIVE Offset(_, _)
Offset(items, k) ==
    IF k = 1 THEN 0 ELSE Offset(items, k - 1) + Len(items[k - 1].text.s) + 1

\* chars is t1 .. tn of the fragments, in order, with one space between neighbours
SpaceJoined(chars, items) ==
    IF items = <<>> THEN chars = <<>>
    ELSE /\ Len(chars) = Offset(items, Len(items)) + Len(items[Len(items)].text.s)
         /\ \A k \in 1..Len(items) :
                /\ \A c \in 1..Len(items[k].text.s) :
                       chars[Offset(items, k) + c] = items[k].text.s[c]
                /\ k > 1 => chars[Offset(items, k)] = " "

\* C18: a response whose text accessor, or else whose content accessor, holds
\* a string gives exactly that string; a list of fragments carrying the texts
\* t1..tn gives t1..tn in that order with single spaces between them.
C18_ConsolidatedOrSpaceJoined ==
    pc = "done" =>
        LET r == attempt_outcome.response IN
        /\ (~r.isList /\ r.hasText /\ r.text.t = "str") => result = TextResult(r.text.s)
        /\ (~r.isList /\ ~(r.hasText /\ r.text.t \in {"str", "list"}) /\ r.content.t = "str")
               => result = TextResult(r.content.s)
        /\ (/\ HasFragmentSource(r)
            /\ \A k \in 1..Len(FragmentSource(r)) : CarriesText(FragmentSource(r)[k]))
               => /\ result.present
                  /\ ~raised
                  /\ SpaceJoined(result.text, FragmentSource(r))

\* content = [{text: "a"}, {text: "bc"}] has been normalised to "a bc"
C18_Witness ==
    /\ pc = "done"
    /\ ~attempt_outcome.response.isList
    /\ attempt_outcome.response.content
           = PyList(<<DictText(TextStr(<<"a">>)), DictText(TextStr(<<"b", "c">>))>>)
    /\ result = TextResult(<<"a", " ", "b", "c">>)

\* position in the candidate list of the n-th attempt of the call
PositionInList(n) == IndexOf(fallback_models, log[n].model, 1)

\* C19: in the fallback scan an exception of a Gemini candidate that is
\* neither quota exhaustion nor timeout, raised by the constructor or by the
\* invocation, moves the scan past that candidate: nothing is raised, the
\* next attempt is on the next usable candidate behind it, and the call ends
\* without a text only when no usable candidate is left behind it.
C19_GeminiScanErrorAdvances ==
    \A i \in 2..Len(log) :
        (log[i].outcome = "Exception" /\ is_gemini(log[i].model)) =>
            /\ i = Len(log) => (~raised /\ pc # "raised")
            /\ IF i < Len(log)
               THEN /\ PositionInList(i + 1) > PositionInList(i)
                    /\ \A k \in (PositionInList(i) + 1)..(PositionInList(i + 1) - 1) :
                           ~CandidateUsable(fallback_models[k])
               ELSE /\ scan > PositionInList(i)
                    /\ \A k \in (PositionInList(i) + 1)..Len(fallback_models) :
                           CandidateUsable(fallback_models[k]) => scan <= k
                    /\ pc = "done" =>
                           /\ ~result.present
                           /\ scan > Len(fallback_models)

\* a Gemini fallback candidate failed with another exception and a later
\* candidate answered
C19_Witness ==
    /\ pc = "done"
    /\ result.present
    /\ Len(log) >= 3
    /\ log[Len(log)].outcome = "ok"
    /\ \E i \in 2..(Len(log) - 1) :
           /\ log[i].outcome = "Exception"
           /\ is_gemini(log[i].model)

\* C20: the first attempt of a call is on the resolved model with the client
\* the config carries; every later attempt is on a candidate behind the
\* resolved model with a client built by the scan; attempts go up the list,
\* no candidate twice, and a success is the last attempt of the call.
C20_AttemptOrder ==
    log # <<>> =>
        /\ log[1].model = llm_config.model_name
        /\ log[1].client = [model |-> llm_config.llm, built_by |-> "selector"]
        /\ fallback_models[current_model_index] = llm_config.model_name
        /\ \A i \in 2..Len(log) :
               /\ log[i].client = [model |-> log[i].model, built_by |-> "scan"]
               /\ PositionInList(i) > current_model_index
               /\ PositionInList(i) <= Len(fallback_models)
               /\ i > 2 => PositionInList(i) > PositionInList(i - 1)
        /\ \A i, j \in 1..Len(log) : i # j => log[i].model # log[j].model
        /\ \A i \in 1..Len(log) :
               log[i].outcome = "ok" => (i = Len(log) /\ pc = "done")

\* four attempts in one call, the last one successful
C20_Witness ==
    /\ pc = "done"
    /\ Len(log) = 4
    /\ log[4].outcome = "ok"
    /\ current_model_index = 1
    /\ PositionInList(4) = 4

\* C21 as stated: the first attempt of a call is on candidate 0 of the list,
\* the resolved model being the caller's preferred model.
C21_FirstAttemptOnCandidateZero ==
    log # <<>> =>
        /\ current_model_index = 1
        /\ log[1].model = fallback_models[1]
        /\ llm_config.model_name = primary_model

\* C21 amended: the first attempt is on the config's resolved model, with the
\* client built for it, at the position the model has in the list; candidate 0
\* is the preferred model, and the first attempt is on candidate 0 exactly
\* when the selector resolved to the preferred model.
C21_FirstAttemptOnResolvedModel ==
    /\ llm_config.present =>
           /\ llm_config.fallback_models[1] = primary_model
           /\ Contains(llm_config.fallback_models, llm_config.model_name)
           /\ CandidateUsable(llm_config.model_name)
    /\ log # <<>> =>
           /\ current_model_index \in 1..Len(fallback_models)
           /\ log[1].model = fallback_models[current_model_index]
           /\ log[1].client.model = log[1].model
           /\ fallback_models[1] = primary_model
           /\ current_model_index = 1 <=> log[1].model = primary_model

\* the preferred model was passed over by the selector: the first attempt of
\* the call is on the third candidate
C21_Witness ==
    /\ log # <<>>
    /\ current_model_index = 3
    /\ log[1].model = fallback_models[3]
    /\ primary_model = fallback_models[1]
    /\ log[1].model # primary_model

\* most attempts a call can make: the candidates from the resolved model on
MaxAttempts ==
    IF fallback_models = <<>> THEN 0 ELSE Len(fallback_models) - current_model_index + 1

\* C22: when the worker of every attempt comes back, a call that was entered
\* ends; it ends with a text or with None and nothing raised unless an attempt
\* ended with an exception that does not derive from Exception, and it never
\* makes more attempts than there are candidates from the resolved model to the
\* end of the list.
C22_CallTerminates ==
    /\ [](Len(log) <= MaxAttempts)
    /\ [](pc = "raised" => log[Len(log)].outcome \in BaseExceptionOnly)
    /\ [](pc = "done" => (~raised /\ (result.present \/ result = NoneResult)))
    /\ (pc \notin {"idle", "selector_raised", "done", "raised"})
           ~> (pc \in {"done", "raised"})

\* a call ended exhausted after as many attempts as there were candidates
C22_Witness ==
    /\ pc = "done"
    /\ ~result.present
    /\ Len(fallback_models) = 4
    /\ current_model_index = 1
    /\ Len(log) = MaxAttempts

\* the three places a sequence of fragments can come from
AsResponse(items) == ListResponse(items)
AsTextAccessor(items) == ObjResponse(TRUE, PyList(items), PyNone, FALSE, PyNone)
AsContentAccessor(items) == ObjResponse(FALSE, PyNone, PyList(items), FALSE, PyNone)

\* C23: the sequence of fragments the normalizer has just worked on gives the
\* same outcome whether it is the response itself, the value of the text
\* accessor or the value of the content accessor.
C23_SameStringOnEveryPath ==
    (pc = "done" /\ HasFragmentSource(attempt_outcome.response)) =>
        LET items == FragmentSource(attempt_outcome.response) IN
        /\ _extract_text_from_response(AsResponse(items))
               = _extract_text_from_response(AsTextAccessor(items))
        /\ _extract_text_from_response(AsTextAccessor(items))
               = _extract_text_from_response(AsContentAccessor(items))

\* the scan stands at a candidate whose provider cannot be used
AtUnusableCandidate ==
    /\ pc = "scan"
    /\ scan <= Len(fallback_models)
    /\ ~CandidateUsable(fallback_models[scan])

\* C24: in the fallback scan a candidate whose credential is missing or blank
\* (or, for a Gemini model, whose library is unavailable) gets no client and
\* no invocation: every scan attempt is on a usable candidate, and at an
\* unusable one the scan moves to the next candidate with nothing attempted,
\* recorded or returned.
C24_UnusableCandidateSkipped ==
    /\ [](/\ \A i \in 2..Len(log) : CandidateUsable(log[i].model)
          /\ (phase = "fallback" /\ pc \in {"submit", "waiting", "timed_out", "resolved"})
                 => CandidateUsable(fallback_models[scan]))
    /\ [][AtUnusableCandidate =>
              /\ pc' = "scan"
              /\ scan' = scan + 1
              /\ log' = log
              /\ _calls' = _calls
              /\ result' = result
              /\ worker' = worker
              /\ attempt_outcome' = attempt_outcome]_vars

\* an unusable candidate stood between the resolved model and the candidate
\* that answered
C24_Witness ==
    /\ pc = "done"
    /\ result.present
    /\ Len(log) >= 2
    /\ \E k \in (current_model_index + 1)..(PositionInList(Len(log)) - 1) :
           ~CandidateUsable(fallback_models[k])

\* records the current call has appended
AppendedByCall == {j \in 1..Len(_calls) : j > Len(calls_before)}

\* C25: what the worker of a timed-out attempt produces is dropped: leaving
\* the timed-out state hands the caller the timeout and nothing of the worker,
\* no worker or worker result survives into the rest of the scan, and a
\* candidate whose attempt timed out gets no record from this call.
C25_LateResponseDiscarded ==
    /\ [](/\ pc \in {"idle", "scan", "submit", "resolved", "done"} =>
                 (worker = "idle" /\ worker_result = NoOutcome)
          /\ \A i \in 1..Len(log) :
                 log[i].outcome = "FuturesTimeoutError" =>
                     \A j \in AppendedByCall : _calls[j].model # log[i].model)
    /\ [][pc = "timed_out" =>
              /\ _calls' = _calls
              /\ result' = result
              /\ log' = log
              /\ pc' # "timed_out" =>
                     /\ attempt_outcome' = ExceptionOutcome("FuturesTimeoutError")
                     /\ worker_result' = NoOutcome
                     /\ worker' = "idle"]_vars

\* a fallback attempt has timed out and its worker has then produced a usable
\* response
C25_Witness ==
    /\ pc = "timed_out"
    /\ phase = "fallback"
    /\ worker = "finished"
    /\ worker_result.kind = "response"
    /\ _extract_text_from_response(worker_result.response).ok

\* C26: between two resets the records only grow at the end: track_call keeps
\* every earlier record in place and adds one after them, in the order of the
\* calls, and the five query methods leave the list as it is.
C26_AppendOnly ==
    [][/\ last_op' = "track_call" =>
              /\ Len(_calls') = Len(_calls) + 1
              /\ \A i \in 1..Len(_calls) : _calls'[i] = _calls[i]
       /\ last_op' \in Queries =>
              /\ _calls' = _calls
              /\ get_all_calls(_calls') = _calls
       /\ last_op' # "reset" =>
              /\ Len(_calls') >= Len(_calls)
              /\ SubSeq(_calls', 1, Len(_calls)) = _calls
      ]_vars

\* a query made after three records of different models, one of them failed
C26_Witness ==
    /\ last_op \in Queries
    /\ Len(_calls) = 3
    /\ _calls[1].model # _calls[2].model
    /\ _calls[2].model # _calls[3].model
    /\ ~_calls[2].success

\* C27: no step of a call, from its entry to its return, changes the config
\* the call was given: model name, provider, client and candidate list are after
\* the call what they were before it, whatever its outcome.  The configs are
\* those get_llm_with_fallback returns, None among them.
C27_ConfigNeverMutated ==
    [][(pc # "idle" \/ pc' \notin {"idle", "selector_raised"}) =>
           llm_config' = llm_config]_vars

\* a call on a config whose resolved model is not the first of its list ended
\* after a fallback attempt: the index was looked up and the list scanned
C27_Witness ==
    /\ pc = "done"
    /\ llm_config.present
    /\ current_model_index > 1
    /\ Len(log) >= 2
    /\ fallback_models = llm_config.fallback_models
    /\ Contains(llm_config.fallback_models, llm_config.model_name)

\* the value query method q returns when it runs alone on the records calls
QueryValue(q, calls) ==
    IF q = "get_usage_stats" THEN RetStats(get_usage_stats(calls))
    ELSE IF q = "get_primary_model" THEN RetModel(get_primary_model(calls))
    ELSE IF q = "get_all_calls" THEN RetCalls(get_all_calls(calls))
    ELSE IF q = "get_total_calls" THEN RetInt(get_total_calls(calls))
    ELSE RetInt(get_successful_calls_count(calls))

\* threads that have read the bound list and have not appended to it yet
Appending ==
    CountOf(threads, {call \in BagToSet(threads) :
                          call.pc = "append" /\ call.list = Current})

\* the reader ends its reading of the list in this step
ReaderEnds == reader.pc \in {"test", "iterate", "read"} /\ reader'.pc = "return"

\* C28: whatever the interleaving of the threads' track_call calls with each
\* other, with the queries and with reset, no record is lost or duplicated.  The
\* bound list holds one record for each track_call call that read self._calls
\* since the last reset, except the calls that are about to append.  A call is
\* counted from its read of self._calls (line 35), the step that decides which
\* list object gets its record; for a call that no reset overlaps this is the
\* call itself, so once all calls have returned total_calls is the number of
\* the calls made since the last reset.  A call that a reset overlaps counts as
\* made before the reset if it read the list before the rebinding (its record
\* goes to the replaced list) and after it otherwise.  The counts of
\* usage_stats add up to successful_calls_count.  A
\* query returns the value of the list it read as that list is when the reading
\* ends, so a query on the bound list made once all calls have returned gives
\* these numbers.
C28_NoRecordLostOrDuplicated ==
    /\ [](get_total_calls(_calls) + Appending = thread_calls)
    /\ [](InFlight = 0 => get_total_calls(_calls) = thread_calls)
    /\ [](SumCounts(get_usage_stats(_calls)) = get_successful_calls_count(_calls))
    /\ [][ReaderEnds =>
             /\ reader'.ret = QueryValue(reader.op, ListOf(reader.list))
             /\ (reader.list = Current /\ InFlight = 0) =>
                    /\ reader.op = "get_total_calls" =>
                           reader'.ret = RetInt(thread_calls)
                    /\ reader.op = "get_usage_stats" =>
                           SumCounts(reader'.ret.stats) =
                               get_successful_calls_count(_calls)]_vars

\* two calls are in flight at once, one has appended and not returned, the other
\* has read the bound list and not appended, while a query in the middle of its
\* iteration over that list has taken the record of the first
C28_Witness ==
    /\ BagIn(Returning, threads)
    /\ Appending >= 1
    /\ reader.pc = "iterate"
    /\ reader.list = Current
    /\ reader.i = Len(_calls)
    /\ reader.i >= 1

\* the candidates of a selection that can be resolved to: the provider is usable
\* and the client constructor does not raise
ProviderUsable(model) ==
    IF model \in {GEMINI_MODEL, GEMINI_FLASH_MODEL}
    THEN GEMINI_AVAILABLE /\ KeyPresent(GOOGLE_API_KEY)
    ELSE KeyPresent(OPENAI_API_KEY)

Qualifying(list, ctor_fails) ==
    {i \in 1..Len(list) : ProviderUsable(list[i]) /\ list[i] \notin ctor_fails}

\* the candidates whose constructor, if called, raises SystemExit
Exiting(list, ctor_exits) ==
    {i \in 1..Len(list) : ProviderUsable(list[i]) /\ list[i] \in ctor_exits}

\* the selection returned, and what it returned is the earliest of the
\* candidates q of list, or no config when q is empty
ResolvesToEarliest(list, q) ==
    /\ pc' = "idle"
    /\ llm_config'.present <=> q # {}
    /\ q = {} => llm_config' = NoneConfig
    /\ q # {} =>
           /\ llm_config'.fallback_models = list
           /\ \E i \in q :
                  /\ \A j \in q : i <= j
                  /\ llm_config'.model_name = list[i]
                  /\ llm_config'.llm = list[i]
                  /\ llm_config'.provider =
                         (IF is_gemini(list[i]) THEN "google" ELSE "openai")

\* C29 as stated: get_llm_with_fallback resolves to the earliest candidate, in
\* list order, whose provider is usable and whose client construction succeeds,
\* every candidate with a failing construction being skipped whatever the
\* constructor raised; it yields no config exactly when no candidate qualifies.
C29_EveryFailingConstructionSkipped ==
    [][\A p \in PrimaryModels, c \in CtorInputs :
          (primary_model' \in {p, primary_model}
              /\ GetLLMWithFallback(p, c.fails, c.exits)) =>
              LET list == BuildFallbackModels(p, GOOGLE_API_KEY, GEMINI_AVAILABLE)
              IN ResolvesToEarliest(list, Qualifying(list, c.fails \cup c.exits))]_vars

\* C29: get_llm_with_fallback resolves to the earliest candidate, in list order,
\* whose provider is usable and whose client construction succeeds, every
\* candidate before it being skipped, of an unusable provider or with a
\* construction that failed with an exception derived from Exception; it yields
\* no config exactly when no candidate qualifies, whether or not a credential is
\* present.  A constructor called before any candidate qualified that raises
\* SystemExit ends the selection: the exception leaves get_llm_with_fallback
\* and no config is returned.
C29_EarliestQualifyingCandidate ==
    [][\A p \in PrimaryModels, c \in CtorInputs :
          (primary_model' \in {p, primary_model}
              /\ GetLLMWithFallback(p, c.fails, c.exits)) =>
              LET list == BuildFallbackModels(p, GOOGLE_API_KEY, GEMINI_AVAILABLE)
                  q == Qualifying(list, c.fails \cup c.exits)
                  e == Exiting(list, c.exits)
              IN IF \E i \in e : \A j \in q : i < j
                 THEN pc' = "selector_raised" /\ llm_config' = llm_config
                 ELSE ResolvesToEarliest(list, q)]_vars

\* a credential is present and the selector returned no config: every candidate of
\* the usable provider failed to construct
C29_Witness ==
    /\ pc = "idle"
    /\ primary_model # NotRequested
    /\ ~llm_config.present
    /\ KeyPresent(OPENAI_API_KEY)
    /\ KeyPresent(GOOGLE_API_KEY)
    /\ GEMINI_AVAILABLE

\* position of the first successful record of a model
FirstSuccessfulRecord(model) ==
    CHOOSE j \in SuccessfulRecords(model) : \A k \in SuccessfulRecords(model) : j <= k

\* the models tied for the greatest number of successful records
MostUsedModels ==
    {m \in TrackedModels :
        /\ SuccessfulRecords(m) # {}
        /\ \A n \in TrackedModels :
               Cardinality(SuccessfulRecords(m)) >= Cardinality(SuccessfulRecords(n))}

\* C30: primary_model is determined by the record sequence: whenever a record is
\* successful it is the one model that has the greatest successful count and,
\* among the models tied for it, the earliest first successful record.
C30_TieGoesToEarliestFirstSuccess ==
    LET pm == get_primary_model(_calls)
    IN MostUsedModels # {} =>
           /\ pm.present
           /\ pm.name \in MostUsedModels
           /\ \A m \in MostUsedModels \ {pm.name} :
                  FirstSuccessfulRecord(pm.name) < FirstSuccessfulRecord(m)

\* two models are tied with two successful records each, the last record belongs
\* to the model that is not returned, and get_primary_model was just called
C30_Witness ==
    /\ Len(_calls) = 4
    /\ Cardinality(MostUsedModels) = 2
    /\ \A j \in 1..4 : _calls[j].success
    /\ _calls[4].model # get_primary_model(_calls).name
    /\ _calls[1].model = get_primary_model(_calls).name
    /\ _calls[2].model # _calls[1].model
    /\ last_op = "get_primary_model"

====
